---- MODULE Spec2Model ----
(***************************************************************************)
(* Model of the aicodex control plane (src/aicodex): the instance          *)
(* supervisor (services/instance_manager.rs) over the vibe_instances       *)
(* table (db/models/vibe_instance.rs).                                     *)
(*                                                                         *)
(* The supervisor part follows one instance id.  Every request handler is  *)
(* a task (a "thread" below) that runs start / stop / restart /            *)
(* health_check / recover_instances; a task takes one step per suspension  *)
(* point (.await) of the source.  The status writes of the supervisor      *)
(* succeed; the read inside prepare_environment and the spawn may fail.    *)
(***************************************************************************)
EXTENDS Integers, Sequences, FiniteSets, TLC

(* ---------------------------------------------------------------- bounds *)
NThreads == 2
MaxChildren == 2
MaxRestarts == 1
StartupTimeoutTicks == 1
MaxInstances == 4
MaxUsers == 1
MaxTime == 5
MaxLogins == 4
MaxRequests == 3
SessionTtl == 3
RefreshThreshold == 1
MaxSessionsPerUser == 2
PortCount == 3

(* InstanceConfig::default: port_base; port_max is port_base + PortCount - 1. *)
PortBase == 18100
PortMax == PortBase + PortCount - 1

Threads == 1..NThreads
ChildIds == 1..MaxChildren

NULL == "null"
NoChild == 0
NoThread == 0

(* ------------------------------------------------------------ the state *)
VARIABLES
  exists,          \* the vibe_instances row of the instance is present
  row,             \* the row: status, last_error, last_error_at, health_status, last_health_check
  auto_start,      \* the row's auto_start column
  processes,       \* InstanceManager.processes[id]: the child handle, or NoChild
  lock,            \* holder of the write guard of InstanceManager.processes, or NoThread
  alive,           \* the child processes of the instance that are alive (OS level)
  nchild,          \* number of children spawned so far
  restarts,        \* number of control-plane restarts so far
  recoverPending,  \* the control plane has just booted and serves no request yet
  op,              \* per task: the operation it runs
  pc,              \* per task: its position in the operation
  ch,              \* per task: the child its start spawned
  held,            \* per task: the handle its stop_process removed from the map
  elapsed,         \* per task: time spent in wait_for_healthy, in probe periods
  sigs,            \* per task: the signals its stop_process sent, in order
  hres,            \* per task: the result of its health probe
  res              \* per task: the result the operation returned

supVars == <<exists, row, auto_start, processes, lock, alive, nchild, restarts,
             recoverPending, op, pc, ch, held, elapsed, sigs, hres, res>>

(* The state of create / delete: the whole vibe_instances table. *)
VARIABLES
  rows,            \* the vibe_instances rows: records [id, port]
  dirs,            \* the instance ids whose data directory exists on disk
  nextId,          \* the ids Uuid::new_v4 has handed out so far, plus one
  cop,             \* per task: "create" or "delete"
  cpc,             \* per task: its position in create / delete
  cid,             \* per task: the id create generated, or the id delete was given
  cport,           \* per task: the port next_available_port returned
  cres             \* per task: the result create / delete returned

crtVars == <<rows, dirs, nextId, cop, cpc, cid, cport, cres>>

(* What delete reads of the rest of the database. *)
VARIABLES
  istatus,         \* per instance id: the status column of its row
  assignments,     \* the user_instance_assignments rows: pairs <<user, instance>>
  alist,           \* the same rows in the order of their assigned_at, oldest first
  current,         \* per user: the current_instance_id column, or NoId
  max_users,       \* per instance id: the max_users column, <<>> for null, <<n>> for n
  atask            \* per task: its assign / unassign / switch call [pc, op, u, i, cur, res]

tblVars == <<istatus, assignments, alist, current, max_users, atask>>

(* The sessions of one user (UserManager over users and user_sessions). *)
VARIABLES
  now,             \* Utc::now(), in the unit of the token's iat and exp
  uexists,         \* the users row of the user is present
  uactive,         \* its is_active column
  sessions,        \* the user's user_sessions rows: [token_hash, expires_at, created_at]
  nsess,           \* number of session rows inserted so far
  issued,          \* the tokens login has returned so far
  revoked,         \* the tokens a completed logout or password change has revoked
  last,            \* the last request answered: [n, op, tok, ok]
  lpc,             \* per task: its position in login / set_user_active
  ltok             \* per task: the token its login generated

sesVars == <<now, uexists, uactive, sessions, nsess, issued, revoked, last, lpc, ltok>>

(* The requests of the proxy (routes/proxy.rs). *)
VARIABLES
  areq,            \* the last request to an admin-only route [route, role, resp]
  preq             \* per task: its proxied request [token, verified, cur, assigned,
                   \*   found, status, resp, sent, starts]

prxVars == <<preq, areq>>

(* The AI agents of the instance (instance_ai_agents) and what leaves the  *)
(* control plane about them.                                                *)
VARIABLES
  agents,          \* per agent type: its row [present, is_enabled, api_key_encrypted]
  logged,          \* the field values of the log records written so far
  response,        \* the AgentConfigInfo records of the last agent response
  given,           \* per agent type: the api_key last given to set_config, or NULL
  child_env,       \* the environment of the child spawned last
  iagents          \* the instance_ai_agents rows of the instances of the table:
                   \*   pairs <<instance_id, agent_type>>

agtVars == <<agents, logged, response, given, child_env, iagents>>

(* One use of the EncryptionService (services/encryption.rs). *)
VARIABLES
  ekey,            \* the key of the service that encrypts, or NoKey
  dkey,            \* the key of the service that decrypts, or NoKey
  eplain,          \* the plaintext given to encrypt
  estored,         \* what encrypt returned: [ok, value]
  eresult,         \* what decrypt returned: [ok, value]
  ephase           \* "new", "encrypted" or "decrypted"

encVars == <<ekey, dkey, eplain, estored, eresult, ephase>>

vars == <<supVars, crtVars, tblVars, sesVars, prxVars, agtVars, encVars>>

(* What a step of one part leaves alone. *)
supOthers == <<crtVars, tblVars, sesVars, prxVars, agtVars, encVars>>
crtOthers == <<supVars, tblVars, sesVars, prxVars, agtVars, encVars>>
tblOthers == <<supVars, crtVars, sesVars, prxVars, agtVars, encVars>>
sesOthers == <<supVars, crtVars, tblVars, prxVars, agtVars, encVars>>
(* spawn_process writes log records. *)
spawnOthers == <<crtVars, tblVars, sesVars, encVars, prxVars, agents, response, given,
                 iagents>>

Statuses == {"stopped", "starting", "running", "stopping", "error"}
Healths == {"unknown", "healthy", "unhealthy"}

ErrEnv == "prepare_environment failed: database error"
ErrSpawn == "spawn failed: binary missing"
ErrHealth == "health check failed: startup timeout"

(* VibeInstance::create inserts status 'stopped', health_status 'unknown'. *)
NewRow ==
  [status |-> "stopped", last_error |-> NULL, last_error_at |-> NULL,
   health_status |-> "unknown", last_health_check |-> NULL]

(* ------------------------------------------------- vibe_instance.rs writes *)
UpdateStatus(r, s) == [r EXCEPT !.status = s]

(* Mutant: the error columns are not cleared when no error is given. *)
UpdateStatusWithErrorKeepsError(r, s, e) ==
  IF e # NULL
    THEN [r EXCEPT !.status = s, !.last_error = e, !.last_error_at = "now"]
    ELSE [r EXCEPT !.status = s]

UpdateStatusWithError(r, s, e) ==
  IF e # NULL
    THEN [r EXCEPT !.status = s, !.last_error = e, !.last_error_at = "now"]
    ELSE [r EXCEPT !.status = s, !.last_error = NULL, !.last_error_at = NULL]

(* Mutant: an unhealthy result also moves the status to error. *)
UpdateHealthStatusMarksError(r, h) ==
  [r EXCEPT !.health_status = h, !.last_health_check = "now",
            !.status = IF h = "unhealthy" THEN "error" ELSE @]

UpdateHealthStatus(r, h) ==
  [r EXCEPT !.health_status = h, !.last_health_check = "now"]

(* An UPDATE ... WHERE id = ? touches the row only when it is present. *)
Write(r) == row' = IF exists THEN r ELSE row

(* ----------------------------------------------------------- task steps *)
Goto(t, l) == pc' = [pc EXCEPT ![t] = l]

Return(t, r) ==
  /\ pc' = [pc EXCEPT ![t] = "done"]
  /\ res' = [res EXCEPT ![t] = r]

(* Mutant: restart goes on to start whatever stop returned. *)
StopReturnIgnoresError(t, r) ==
  IF op[t] = "restart" THEN Goto(t, "s_get") /\ UNCHANGED res ELSE Return(t, r)

(* restart: self.stop(id).await?; self.start(id).await? *)
StopReturn(t, r) ==
  IF op[t] = "restart" /\ r = "ok"
    THEN Goto(t, "s_get") /\ UNCHANGED res
    ELSE Return(t, r)

(* recover_instances logs a failed start and goes on: it returns Ok; the    *)
(* proxy matches on the result of its start.                               *)
StartReturn(t, r) ==
  IF op[t] = "recover" THEN Return(t, "ok")
  ELSE IF op[t] = "proxy"
    THEN pc' = [pc EXCEPT ![t] = "x_started"] /\ res' = [res EXCEPT ![t] = r]
  ELSE Return(t, r)

(* health_check returns to its caller; recover_instances matches on it. *)
HealthReturn(t, h) ==
  IF op[t] = "recover"
    THEN IF h = "healthy"
           THEN Return(t, "ok")
           ELSE Goto(t, "r_stopped") /\ UNCHANGED res
    ELSE Return(t, h)

(* A probe of /api/health answers 2xx only when a child of the instance lives. *)
ProbeCanSucceed == alive # {}

(* Mutant: start has no early return. *)
StartNeverSkips(s) == FALSE

StartSkipsWhen(s) == s = "running"
StopSkipsWhen(s) == s = "stopped"

(* ======================================================================= *)
(* InstanceManager::create / delete over the vibe_instances table.         *)
(* ======================================================================= *)
InstanceIds == 1..MaxInstances
UserIds == 1..MaxUsers
NoPort == 0
NoId == 0

UsedPorts(rs) == {r.port : r \in rs}

(* next_available_port: the SELECT keeps the ports of [base_port, max_port]; *)
(* the loop `for port in base_port..=max_port` returns the first one that    *)
(* is not in used_set, None (NoPort) when the loop ends.                     *)
RECURSIVE ScanPorts(_, _, _)
ScanPorts(port, max_port, used_set) ==
  IF port > max_port THEN NoPort
  ELSE IF port \notin used_set THEN port
  ELSE ScanPorts(port + 1, max_port, used_set)

(* Mutant: the loop runs one port past max_port. *)
NextAvailablePortPastMax(rs, base_port, max_port) ==
  ScanPorts(base_port, max_port + 1,
            {q \in UsedPorts(rs) : q >= base_port /\ q <= max_port})

(* Mutant: the scan starts at base_port + 1. *)
NextAvailablePortSkipsBase(rs, base_port, max_port) ==
  ScanPorts(base_port + 1, max_port,
            {q \in UsedPorts(rs) : q >= base_port /\ q <= max_port})

NextAvailablePort(rs, base_port, max_port) ==
  ScanPorts(base_port, max_port,
            {q \in UsedPorts(rs) : q >= base_port /\ q <= max_port})

(* The schema's uniqueness constraint on vibe_instances.port (the migration *)
(* is not part of the sources; the specification names port among the       *)
(* uniqueness constraints).                                                 *)
PortConstraintHolds(rs, port) == port \notin UsedPorts(rs)

(* VibeInstance::count_users: the number of assignment rows of the instance. *)
CountUsers(as, i) == Cardinality({a \in as : a[2] = i})

(* Mutant: delete does not look at the assignments. *)
DeleteCheckIgnoresUsers(status, user_count) ==
  IF status # "stopped" THEN "conflict_not_stopped" ELSE "ok"

(* delete: the status check, then the user-count check. *)
DeleteCheck(status, user_count) ==
  IF status # "stopped" THEN "conflict_not_stopped"
  ELSE IF user_count > 0 THEN "conflict_has_users"
  ELSE "ok"

IdleTask == [pc |-> "idle", op |-> "none", u |-> NoId, i |-> NoId, cur |-> NoId, res |-> NULL]

(* ------------------------------------------------ services/encryption.rs *)
(* The keys are 32 bytes each; the nonce is 12 bytes. *)
NoKey == "none"
EncKeys == {"K1", "K2"}
NonceLen == 12
Nonces == {[k \in 1..NonceLen |-> b] : b \in 0..2}
Plaintexts == {"", "a", "sk-1"}

Ok(v) == [ok |-> TRUE, value |-> v]
Err == [ok |-> FALSE, value |-> "error"]

(* Aes256Gcm: the ciphertext with its tag opens only under the key and     *)
(* the nonce that sealed it.                                               *)
Seal(key, nonce, msg) == <<[key |-> key, nonce |-> nonce, msg |-> msg]>>
Open(key, nonce, ciphertext) ==
  IF /\ Len(ciphertext) = 1
     /\ ciphertext[1].key = key
     /\ ciphertext[1].nonce = nonce
    THEN Ok(ciphertext[1].msg)
    ELSE Err

(* BASE64.encode / BASE64.decode of a byte string. *)
Base64Encode(bytes) == [b64 |-> bytes]
Base64Decode(text) == text.b64

(* encrypt: no key is an error; else base64(nonce ++ ciphertext). *)
EncryptWith(key, nonce, plaintext) ==
  IF key = NoKey THEN Err
  ELSE Ok(Base64Encode(nonce \o Seal(key, nonce, plaintext)))

(* Mutant: the nonce is taken one byte short. *)
DecryptWithShortNonce(key, encrypted) ==
  IF key = NoKey THEN Err
  ELSE LET combined == Base64Decode(encrypted)
       IN  IF Len(combined) < NonceLen THEN Err
           ELSE Open(key, SubSeq(combined, 1, NonceLen - 1),
                     SubSeq(combined, NonceLen, Len(combined)))

(* decrypt: no key is an error; the first 12 bytes are the nonce, the rest *)
(* is the ciphertext.                                                      *)
DecryptWith(key, encrypted) ==
  IF key = NoKey THEN Err
  ELSE LET combined == Base64Decode(encrypted)
       IN  IF Len(combined) < NonceLen THEN Err
           ELSE Open(key, SubSeq(combined, 1, NonceLen),
                     SubSeq(combined, NonceLen + 1, Len(combined)))

EncInit ==
  /\ ekey = NoKey
  /\ dkey = NoKey
  /\ eplain = ""
  /\ estored = Err
  /\ eresult = Err
  /\ ephase = "new"

(* EncryptionService::new for the service that encrypts and for the one    *)
(* that decrypts: a key of 32 bytes, or no key.                            *)
EncryptionServiceNew(key, other) ==
  /\ ephase = "new"
  /\ ekey' = key
  /\ dkey' = other
  /\ ephase' = "ready"
  /\ UNCHANGED <<eplain, estored, eresult, supVars, crtVars, tblVars, sesVars,
                 prxVars, agtVars>>

(* service.encrypt(plaintext), with the nonce the generator draws. *)
EncryptCall(plaintext, nonce) ==
  /\ ephase = "ready"
  /\ eplain' = plaintext
  /\ estored' = EncryptWith(ekey, nonce, plaintext)
  /\ eresult' = Err
  /\ ephase' = "encrypted"
  /\ UNCHANGED <<ekey, dkey, supVars, crtVars, tblVars, sesVars, prxVars, agtVars>>

(* service.decrypt(&encrypted) of what encrypt returned. *)
DecryptCall ==
  /\ ephase = "encrypted"
  /\ estored.ok
  /\ eresult' = DecryptWith(dkey, estored.value)
  /\ ephase' = "decrypted"
  /\ UNCHANGED <<ekey, dkey, eplain, estored, supVars, crtVars, tblVars, sesVars,
                 prxVars, agtVars>>

(* ------------------------------------------------------------ AI agents *)
AgentTypes == {"claude-code", "opencode"}

(* The API keys an admin may submit, and what EncryptionService::encrypt    *)
(* stores for them (base64 of nonce and AES-GCM ciphertext).                *)
Keys == {"sk-1", "sk-2"}
Encrypt(k) == IF k = "sk-1" THEN "enc-1" ELSE "enc-2"
KeyMaterial == Keys \cup {Encrypt(k) : k \in Keys}

BoolText(b) == IF b THEN "true" ELSE "false"

NoAgent == [present |-> FALSE, is_enabled |-> FALSE, api_key_encrypted |-> NULL]

(* InstanceAiAgent::upsert: INSERT ... ON CONFLICT DO UPDATE SET            *)
(* is_enabled = excluded.is_enabled, api_key_encrypted = COALESCE(excluded, *)
(* stored).                                                                 *)
Upsert(a, is_enabled, api_key_encrypted) ==
  [present |-> TRUE, is_enabled |-> is_enabled,
   api_key_encrypted |->
     IF api_key_encrypted # NULL THEN api_key_encrypted
     ELSE IF a.present THEN a.api_key_encrypted ELSE NULL]

(* InstanceAiAgent::set_enabled: UPDATE instance_ai_agents SET             *)
(* is_enabled = ? WHERE instance_id = ? AND agent_type = ?                  *)
SetEnabledRow(a, is_enabled) ==
  IF a.present THEN [a EXCEPT !.is_enabled = is_enabled] ELSE a

(* impl From<InstanceAiAgent> for AgentConfigInfo *)
AgentConfigInfo(ty, a) ==
  [agent_type |-> ty, is_enabled |-> BoolText(a.is_enabled),
   has_api_key |-> BoolText(a.api_key_encrypted # NULL)]

(* get_agent_env_vars: the stored api_key_encrypted goes into the variable. *)
GetAgentEnvVars(ty, a) ==
  IF ty = "claude-code"
    THEN (IF a.api_key_encrypted # NULL
            THEN {[key |-> "ANTHROPIC_API_KEY", value |-> a.api_key_encrypted]}
            ELSE {})
         \cup {[key |-> "CLAUDE_CONFIG_DIR", value |-> "data_dir/ai-agents/claude-code"]}
    ELSE {[key |-> "OPENCODE_CONFIG_DIR", value |-> "data_dir/ai-agents/opencode"]}

(* prepare_environment: the variables of the instance, then those of its    *)
(* enabled agents (list_enabled_by_instance).                               *)
PrepareEnvironment(ags) ==
  {[key |-> "PORT", value |-> "port"], [key |-> "BACKEND_PORT", value |-> "port"],
   [key |-> "HOST", value |-> "127.0.0.1"],
   [key |-> "VIBE_DATA_DIR", value |-> "data_dir"],
   [key |-> "RUST_LOG", value |-> "info"]}
  \cup UNION {GetAgentEnvVars(ty, ags[ty]) :
               ty \in {x \in AgentTypes : ags[x].present /\ ags[x].is_enabled}}

(* spawn_process: for (key, value) in &env_vars { tracing::debug!(key,      *)
(* value) }, after the log record of instance id, port and data_dir.        *)
SpawnLogs(env_vars) ==
  {"port", "data_dir"} \cup {e.key : e \in env_vars} \cup {e.value : e \in env_vars}

CrtInit ==
  /\ istatus = [i \in InstanceIds |-> "stopped"]
  /\ assignments = {}
  /\ alist = <<>>
  /\ current = [u \in UserIds |-> NoId]
  /\ max_users = [i \in InstanceIds |-> <<>>]
  /\ atask = [t \in Threads |-> IdleTask]
  /\ rows = {}
  /\ dirs = {}
  /\ nextId = 1
  /\ cop = [t \in Threads |-> "none"]
  /\ cpc = [t \in Threads |-> "idle"]
  /\ cid = [t \in Threads |-> NoId]
  /\ cport = [t \in Threads |-> NoPort]
  /\ cres = [t \in Threads |-> NULL]

(* ------------------------------------------------ InstanceManager::start *)
StartNotFound(t) ==
  /\ pc[t] = "s_get" /\ ~exists
  /\ StartReturn(t, "not_found")
  /\ UNCHANGED <<exists, row, auto_start, processes, lock, alive, nchild, restarts,
                 recoverPending, op, ch, held, elapsed, sigs, hres, supOthers>>

StartAlreadyRunning(t) ==
  /\ pc[t] = "s_get" /\ exists /\ StartSkipsWhen(row.status)
  /\ StartReturn(t, "ok")
  /\ UNCHANGED <<exists, row, auto_start, processes, lock, alive, nchild, restarts,
                 recoverPending, op, ch, held, elapsed, sigs, hres, supOthers>>

StartGet(t) ==
  /\ pc[t] = "s_get" /\ exists /\ ~StartSkipsWhen(row.status)
  /\ Goto(t, "s_starting")
  /\ UNCHANGED <<exists, row, auto_start, processes, lock, alive, nchild, restarts,
                 recoverPending, op, ch, held, elapsed, sigs, hres, res, supOthers>>

StartWriteStarting(t) ==
  /\ pc[t] = "s_starting"
  /\ Write(UpdateStatusWithError(row, "starting", NULL))
  /\ Goto(t, "s_env")
  /\ UNCHANGED <<exists, auto_start, processes, lock, alive, nchild, restarts,
                 recoverPending, op, ch, held, elapsed, sigs, hres, res, supOthers>>

PrepareEnvironmentOk(t) ==
  /\ pc[t] = "s_env"
  /\ Goto(t, "s_spawn")
  /\ UNCHANGED <<exists, row, auto_start, processes, lock, alive, nchild, restarts,
                 recoverPending, op, ch, held, elapsed, sigs, hres, res, supOthers>>

PrepareEnvironmentFails(t) ==
  /\ pc[t] = "s_env"
  /\ Goto(t, "s_env_err")
  /\ UNCHANGED <<exists, row, auto_start, processes, lock, alive, nchild, restarts,
                 recoverPending, op, ch, held, elapsed, sigs, hres, res, supOthers>>

StartEnvError(t) ==
  /\ pc[t] = "s_env_err"
  /\ Write(UpdateStatusWithError(row, "error", ErrEnv))
  /\ StartReturn(t, "err")
  /\ UNCHANGED <<exists, auto_start, processes, lock, alive, nchild, restarts,
                 recoverPending, op, ch, held, elapsed, sigs, hres, supOthers>>

SpawnProcessOk(t) ==
  /\ pc[t] = "s_spawn"
  /\ nchild < MaxChildren
  /\ nchild' = nchild + 1
  /\ alive' = alive \cup {nchild + 1}
  /\ ch' = [ch EXCEPT ![t] = nchild + 1]
  /\ Goto(t, "s_insert")
  /\ logged' = logged \cup SpawnLogs(PrepareEnvironment(agents))
  /\ child_env' = PrepareEnvironment(agents)
  /\ UNCHANGED <<exists, row, auto_start, processes, lock, restarts,
                 recoverPending, op, held, elapsed, sigs, hres, res, spawnOthers>>

(* The binary is missing (nothing but the first record is logged), or      *)
(* Command::spawn fails after the environment was logged.                   *)
SpawnProcessFails(t) ==
  /\ pc[t] = "s_spawn"
  /\ Goto(t, "s_spawn_err")
  /\ \E bin_exists \in BOOLEAN :
       logged' = logged \cup (IF bin_exists
                                THEN SpawnLogs(PrepareEnvironment(agents))
                                ELSE {"port", "data_dir"})
  /\ UNCHANGED <<child_env, exists, row, auto_start, processes, lock, alive, nchild, restarts,
                 recoverPending, op, ch, held, elapsed, sigs, hres, res, spawnOthers>>

StartSpawnError(t) ==
  /\ pc[t] = "s_spawn_err"
  /\ Write(UpdateStatusWithError(row, "error", ErrSpawn))
  /\ StartReturn(t, "err")
  /\ UNCHANGED <<exists, auto_start, processes, lock, alive, nchild, restarts,
                 recoverPending, op, ch, held, elapsed, sigs, hres, supOthers>>

(* self.processes.write().await.insert(id, running_process): the handle the *)
(* map held before is dropped, which does not kill its process.            *)
StartInsert(t) ==
  /\ pc[t] = "s_insert"
  /\ lock = NoThread
  /\ processes' = ch[t]
  /\ elapsed' = [elapsed EXCEPT ![t] = 0]
  /\ Goto(t, "s_wait")
  /\ UNCHANGED <<exists, row, auto_start, lock, alive, nchild, restarts,
                 recoverPending, op, ch, held, sigs, hres, res, supOthers>>

(* wait_for_healthy: while start.elapsed() < timeout { probe ... } *)
WaitProbeOk(t) ==
  /\ pc[t] = "s_wait"
  /\ elapsed[t] < StartupTimeoutTicks
  /\ ProbeCanSucceed
  /\ Goto(t, "s_running")
  /\ UNCHANGED <<exists, row, auto_start, processes, lock, alive, nchild, restarts,
                 recoverPending, op, ch, held, elapsed, sigs, hres, res, supOthers>>

(* Mutant: the loop does not look at the clock, a failed probe is retried. *)
WaitProbeFailsForever(t) ==
  /\ pc[t] = "s_wait"
  /\ elapsed[t] < StartupTimeoutTicks
  /\ UNCHANGED <<exists, row, auto_start, processes, lock, alive, nchild, restarts,
                 recoverPending, op, pc, ch, held, elapsed, sigs, hres, res, supOthers>>

WaitProbeFails(t) ==
  /\ pc[t] = "s_wait"
  /\ elapsed[t] < StartupTimeoutTicks
  /\ elapsed' = [elapsed EXCEPT ![t] = elapsed[t] + 1]
  /\ UNCHANGED <<exists, row, auto_start, processes, lock, alive, nchild, restarts,
                 recoverPending, op, pc, ch, held, sigs, hres, res, supOthers>>

WaitTimeout(t) ==
  /\ pc[t] = "s_wait"
  /\ ~(elapsed[t] < StartupTimeoutTicks)
  /\ Goto(t, "s_kill")
  /\ UNCHANGED <<exists, row, auto_start, processes, lock, alive, nchild, restarts,
                 recoverPending, op, ch, held, elapsed, sigs, hres, res, supOthers>>

StartWriteRunning(t) ==
  /\ pc[t] = "s_running"
  /\ Write(UpdateStatusWithError(row, "running", NULL))
  /\ Goto(t, "s_healthy")
  /\ UNCHANGED <<exists, auto_start, processes, lock, alive, nchild, restarts,
                 recoverPending, op, ch, held, elapsed, sigs, hres, res, supOthers>>

StartWriteHealthy(t) ==
  /\ pc[t] = "s_healthy"
  /\ Write(UpdateHealthStatus(row, "healthy"))
  /\ StartReturn(t, "ok")
  /\ UNCHANGED <<exists, auto_start, processes, lock, alive, nchild, restarts,
                 recoverPending, op, ch, held, elapsed, sigs, hres, supOthers>>

(* Mutant: the handle is removed, the child is not killed. *)
KillProcessForgetsKill(t) ==
  /\ pc[t] = "s_kill"
  /\ lock = NoThread
  /\ processes' = NoChild
  /\ Goto(t, "s_err")
  /\ UNCHANGED <<exists, row, auto_start, lock, alive, nchild, restarts,
                 recoverPending, op, ch, held, elapsed, sigs, hres, res, supOthers>>

(* kill_process: takes the write guard, removes the handle the map holds    *)
(* and kills that child; the guard is released when the function ends.      *)
KillProcess(t) ==
  /\ pc[t] = "s_kill"
  /\ lock = NoThread
  /\ processes' = NoChild
  /\ alive' = alive \ {processes}
  /\ Goto(t, "s_err")
  /\ UNCHANGED <<exists, row, auto_start, lock, nchild, restarts,
                 recoverPending, op, ch, held, elapsed, sigs, hres, res, supOthers>>

(* Mutant: the status is set to error without the message. *)
StartHealthErrorNoMessage(t) ==
  /\ pc[t] = "s_err"
  /\ Write(UpdateStatus(row, "error"))
  /\ StartReturn(t, "err")
  /\ UNCHANGED <<exists, auto_start, processes, lock, alive, nchild, restarts,
                 recoverPending, op, ch, held, elapsed, sigs, hres, supOthers>>

StartHealthError(t) ==
  /\ pc[t] = "s_err"
  /\ Write(UpdateStatusWithError(row, "error", ErrHealth))
  /\ StartReturn(t, "err")
  /\ UNCHANGED <<exists, auto_start, processes, lock, alive, nchild, restarts,
                 recoverPending, op, ch, held, elapsed, sigs, hres, supOthers>>

(* ------------------------------------------------- InstanceManager::stop *)
StopNotFound(t) ==
  /\ pc[t] = "p_get" /\ ~exists
  /\ StopReturn(t, "not_found")
  /\ UNCHANGED <<exists, row, auto_start, processes, lock, alive, nchild, restarts,
                 recoverPending, op, ch, held, elapsed, sigs, hres, supOthers>>

StopAlreadyStopped(t) ==
  /\ pc[t] = "p_get" /\ exists /\ StopSkipsWhen(row.status)
  /\ StopReturn(t, "ok")
  /\ UNCHANGED <<exists, row, auto_start, processes, lock, alive, nchild, restarts,
                 recoverPending, op, ch, held, elapsed, sigs, hres, supOthers>>

StopGet(t) ==
  /\ pc[t] = "p_get" /\ exists /\ ~StopSkipsWhen(row.status)
  /\ Goto(t, "p_stopping")
  /\ UNCHANGED <<exists, row, auto_start, processes, lock, alive, nchild, restarts,
                 recoverPending, op, ch, held, elapsed, sigs, hres, res, supOthers>>

StopWriteStopping(t) ==
  /\ pc[t] = "p_stopping"
  /\ Write(UpdateStatus(row, "stopping"))
  /\ Goto(t, "p_remove")
  /\ UNCHANGED <<exists, auto_start, processes, lock, alive, nchild, restarts,
                 recoverPending, op, ch, held, elapsed, sigs, hres, res, supOthers>>

(* Mutant: the child is killed at once. *)
FirstSignalsKill == <<"SIGKILL">>

(* The signals stop_process sends right after it took the handle. *)
FirstSignals == <<"SIGTERM">>

(* stop_process: takes the write guard and keeps it until it returns;       *)
(* processes.remove(id), then SIGTERM to the child, then the timed wait.    *)
StopProcessTake(t) ==
  /\ pc[t] = "p_remove"
  /\ lock = NoThread
  /\ processes # NoChild
  /\ lock' = t
  /\ held' = [held EXCEPT ![t] = processes]
  /\ processes' = NoChild
  /\ sigs' = [sigs EXCEPT ![t] = FirstSignals]
  /\ Goto(t, "p_wait")
  /\ UNCHANGED <<exists, row, auto_start, alive, nchild, restarts,
                 recoverPending, op, ch, elapsed, hres, res, supOthers>>

(* No handle in the map: stop_process does nothing. *)
StopProcessNone(t) ==
  /\ pc[t] = "p_remove"
  /\ lock = NoThread
  /\ processes = NoChild
  /\ Goto(t, "p_stopped")
  /\ UNCHANGED <<exists, row, auto_start, processes, lock, alive, nchild, restarts,
                 recoverPending, op, ch, held, elapsed, sigs, hres, res, supOthers>>

(* timeout(shutdown_timeout, child.wait()) returns Ok: the child has exited. *)
StopWaitExited(t) ==
  /\ pc[t] = "p_wait"
  /\ alive' = alive \ {held[t]}
  /\ lock' = NoThread
  /\ Goto(t, "p_stopped")
  /\ UNCHANGED <<exists, row, auto_start, processes, nchild, restarts,
                 recoverPending, op, ch, held, elapsed, sigs, hres, res, supOthers>>

(* The wait times out with the child still alive: child.kill() (SIGKILL). *)
StopWaitTimeout(t) ==
  /\ pc[t] = "p_wait"
  /\ held[t] \in alive
  /\ sigs' = [sigs EXCEPT ![t] = Append(sigs[t], "SIGKILL")]
  /\ alive' = alive \ {held[t]}
  /\ lock' = NoThread
  /\ Goto(t, "p_stopped")
  /\ UNCHANGED <<exists, row, auto_start, processes, nchild, restarts,
                 recoverPending, op, ch, held, elapsed, hres, res, supOthers>>

StopWriteStopped(t) ==
  /\ pc[t] = "p_stopped"
  /\ Write(UpdateStatus(row, "stopped"))
  /\ Goto(t, "p_health")
  /\ UNCHANGED <<exists, auto_start, processes, lock, alive, nchild, restarts,
                 recoverPending, op, ch, held, elapsed, sigs, hres, res, supOthers>>

StopWriteUnknown(t) ==
  /\ pc[t] = "p_health"
  /\ Write(UpdateHealthStatus(row, "unknown"))
  /\ StopReturn(t, "ok")
  /\ UNCHANGED <<exists, auto_start, processes, lock, alive, nchild, restarts,
                 recoverPending, op, ch, held, elapsed, sigs, hres, supOthers>>

(* ----------------------------------------- InstanceManager::health_check *)
HealthNotFound(t) ==
  /\ pc[t] = "h_get" /\ ~exists
  /\ HealthReturn(t, "not_found")
  /\ UNCHANGED <<exists, row, auto_start, processes, lock, alive, nchild, restarts,
                 recoverPending, op, ch, held, elapsed, sigs, hres, supOthers>>

HealthNotRunning(t) ==
  /\ pc[t] = "h_get" /\ exists /\ row.status # "running"
  /\ HealthReturn(t, "unknown")
  /\ UNCHANGED <<exists, row, auto_start, processes, lock, alive, nchild, restarts,
                 recoverPending, op, ch, held, elapsed, sigs, hres, supOthers>>

HealthGet(t) ==
  /\ pc[t] = "h_get" /\ exists /\ row.status = "running"
  /\ Goto(t, "h_probe")
  /\ UNCHANGED <<exists, row, auto_start, processes, lock, alive, nchild, restarts,
                 recoverPending, op, ch, held, elapsed, sigs, hres, res, supOthers>>

HealthProbeOk(t) ==
  /\ pc[t] = "h_probe"
  /\ ProbeCanSucceed
  /\ hres' = [hres EXCEPT ![t] = "healthy"]
  /\ Goto(t, "h_write")
  /\ UNCHANGED <<exists, row, auto_start, processes, lock, alive, nchild, restarts,
                 recoverPending, op, ch, held, elapsed, sigs, res, supOthers>>

HealthProbeFails(t) ==
  /\ pc[t] = "h_probe"
  /\ hres' = [hres EXCEPT ![t] = "unhealthy"]
  /\ Goto(t, "h_write")
  /\ UNCHANGED <<exists, row, auto_start, processes, lock, alive, nchild, restarts,
                 recoverPending, op, ch, held, elapsed, sigs, res, supOthers>>

HealthWrite(t) ==
  /\ pc[t] = "h_write"
  /\ Write(UpdateHealthStatus(row, hres[t]))
  /\ HealthReturn(t, hres[t])
  /\ UNCHANGED <<exists, auto_start, processes, lock, alive, nchild, restarts,
                 recoverPending, op, ch, held, elapsed, sigs, hres, supOthers>>

(* ------------------------------------ InstanceManager::recover_instances *)
(* Mutant: the query lists every instance, whatever its status. *)
ListRunningAnyStatus == exists

(* VibeInstance::list_running: the rows whose status is 'running'. *)
ListRunning == exists /\ row.status = "running"

RecoverListNone(t) ==
  /\ pc[t] = "r_list" /\ ~ListRunning
  /\ Return(t, "ok")
  /\ UNCHANGED <<exists, row, auto_start, processes, lock, alive, nchild, restarts,
                 recoverPending, op, ch, held, elapsed, sigs, hres, supOthers>>

RecoverList(t) ==
  /\ pc[t] = "r_list" /\ ListRunning
  /\ Goto(t, "h_get")
  /\ UNCHANGED <<exists, row, auto_start, processes, lock, alive, nchild, restarts,
                 recoverPending, op, ch, held, elapsed, sigs, hres, res, supOthers>>

RecoverStoppedAutoStart(t) ==
  /\ pc[t] = "r_stopped" /\ auto_start
  /\ Write(UpdateStatus(row, "stopped"))
  /\ Goto(t, "s_get")
  /\ UNCHANGED <<exists, auto_start, processes, lock, alive, nchild, restarts,
                 recoverPending, op, ch, held, elapsed, sigs, hres, res, supOthers>>

RecoverStoppedNoAutoStart(t) ==
  /\ pc[t] = "r_stopped" /\ ~auto_start
  /\ Write(UpdateStatus(row, "stopped"))
  /\ Return(t, "ok")
  /\ UNCHANGED <<exists, auto_start, processes, lock, alive, nchild, restarts,
                 recoverPending, op, ch, held, elapsed, sigs, hres, supOthers>>

(* ======================================================================= *)
(* UserManager: the sessions of one user.                                  *)
(* ======================================================================= *)
(* generate_token: the claims sub, iat and exp = iat + session_ttl_secs;   *)
(* the same user at the same time gets the same signed token.              *)
GenerateToken(t) == [sub |-> 1, iat |-> t, exp |-> t + SessionTtl]

(* hash_token: SHA-256 of the token, hex encoded. *)
HashToken(tok) == <<"sha256", tok>>

(* Validation::default() of verify_token: the library accepts a token up   *)
(* to exp + leeway.                                                        *)
JwtLeeway == 1

(* verify_token: the signature is the server's and exp has not passed. *)
VerifyToken(tok, t) == tok \in issued /\ t <= tok.exp + JwtLeeway

(* get_valid_by_token_hash: token_hash = ? AND expires_at > now. *)
GetValidByTokenHash(ss, h, t) == {x \in ss : x.token_hash = h /\ x.expires_at > t}

(* UserSession::needs_refresh: expires_at <= now + threshold. *)
NeedsRefresh(x, t) == x.expires_at <= t + RefreshThreshold

(* limit_user_sessions: deletes the rows after the first max_sessions in   *)
(* the order created_at DESC.                                              *)
LimitUserSessions(ss, max_sessions) ==
  {x \in ss : Cardinality({y \in ss : y.created_at > x.created_at}) < max_sessions}

(* The schema's uniqueness constraint on user_sessions.token_hash (the      *)
(* migration is not part of the sources; the specification names token_hash *)
(* among the uniqueness constraints).                                       *)
TokenHashConstraintHolds(ss, h) == \A x \in ss : x.token_hash # h

Answer(o, tok, ok) ==
  last' = [n |-> last.n + 1, op |-> o, tok |-> tok, ok |-> ok]

NoToken == [sub |-> 0, iat |-> 0, exp |-> 0]

SesInit ==
  /\ now = 0
  /\ uexists = TRUE
  /\ uactive = TRUE
  /\ sessions = {}
  /\ nsess = 0
  /\ issued = {}
  /\ revoked = {}
  /\ last = [n |-> 0, op |-> "none", tok |-> NoToken, ok |-> FALSE]
  /\ lpc = [t \in Threads |-> "idle"]
  /\ ltok = [t \in Threads |-> NoToken]

(* ---------------------------------------------------- UserManager::login *)
(* No such user, user not active, or wrong password. *)
LoginRejected(t) ==
  /\ lpc[t] = "idle" /\ last.n < MaxRequests
  /\ Answer("login", NoToken, FALSE)
  /\ UNCHANGED <<now, uexists, uactive, sessions, nsess, issued, revoked, lpc, ltok,
                 sesOthers>>

(* get_by_username, is_active and password checks; create_session then     *)
(* generates the token.                                                     *)
LoginGet(t) ==
  /\ lpc[t] = "idle"
  /\ nsess + Cardinality({u \in Threads : lpc[u] \in {"l_limit", "l_insert"}}) < MaxLogins
  /\ uexists /\ uactive
  /\ ltok' = [ltok EXCEPT ![t] = GenerateToken(now)]
  /\ lpc' = [lpc EXCEPT ![t] = "l_limit"]
  /\ UNCHANGED <<now, uexists, uactive, sessions, nsess, issued, revoked, last,
                 sesOthers>>

LoginLimit(t) ==
  /\ lpc[t] = "l_limit"
  /\ sessions' = LimitUserSessions(sessions, MaxSessionsPerUser)
  /\ lpc' = [lpc EXCEPT ![t] = "l_insert"]
  /\ UNCHANGED <<now, uexists, uactive, nsess, issued, revoked, last, ltok, sesOthers>>

(* UserSession::create; login then returns the token. *)
LoginInsert(t) ==
  /\ lpc[t] = "l_insert"
  /\ TokenHashConstraintHolds(sessions, HashToken(ltok[t]))
  /\ sessions' = sessions \cup {[token_hash |-> HashToken(ltok[t]),
                                  expires_at |-> ltok[t].exp,
                                  created_at |-> nsess + 1]}
  /\ nsess' = nsess + 1
  /\ issued' = issued \cup {ltok[t]}
  /\ last' = [n |-> last.n, op |-> "login", tok |-> ltok[t], ok |-> TRUE]
  /\ lpc' = [lpc EXCEPT ![t] = "idle"]
  /\ ltok' = [ltok EXCEPT ![t] = NoToken]
  /\ UNCHANGED <<now, uexists, uactive, revoked, sesOthers>>

(* The INSERT fails: a session row with the same token hash exists. *)
LoginInsertConflict(t) ==
  /\ lpc[t] = "l_insert"
  /\ ~TokenHashConstraintHolds(sessions, HashToken(ltok[t]))
  /\ last' = [n |-> last.n, op |-> "login", tok |-> NoToken, ok |-> FALSE]
  /\ lpc' = [lpc EXCEPT ![t] = "idle"]
  /\ ltok' = [ltok EXCEPT ![t] = NoToken]
  /\ UNCHANGED <<now, uexists, uactive, sessions, nsess, issued, revoked, sesOthers>>

(* ---------------------------------------------- set_user_active(user, b) *)
SetActiveWrite(t, b) ==
  /\ lpc[t] = "idle" /\ uexists /\ uactive # b
  /\ uactive' = b
  /\ lpc' = [lpc EXCEPT ![t] = IF b THEN "idle" ELSE "a_purge"]
  /\ UNCHANGED <<now, uexists, sessions, nsess, issued, revoked, last, ltok, sesOthers>>

(* if !is_active: delete_all_by_user *)
SetActivePurge(t) ==
  /\ lpc[t] = "a_purge"
  /\ sessions' = {}
  /\ lpc' = [lpc EXCEPT ![t] = "idle"]
  /\ UNCHANGED <<now, uexists, uactive, nsess, issued, revoked, last, ltok, sesOthers>>

(* ------------------------------------------- requests answered in one go *)
NoTaskInside == \A t \in Threads : lpc[t] = "idle"

(* logout: delete_by_token_hash *)
Logout(tok) ==
  /\ NoTaskInside /\ tok \notin revoked
  /\ sessions' = {x \in sessions : x.token_hash # HashToken(tok)}
  /\ revoked' = revoked \cup {tok}
  /\ UNCHANGED <<now, uexists, uactive, nsess, issued, last, lpc, ltok, sesOthers>>

(* change_password / reset_password: update_password, delete_all_by_user *)
UpdatePassword ==
  /\ NoTaskInside /\ uexists /\ sessions # {}
  /\ sessions' = {}
  /\ revoked' = revoked \cup issued
  /\ UNCHANGED <<now, uexists, uactive, nsess, issued, last, lpc, ltok, sesOthers>>

(* verify_session: verify_token, the live session row, the active user,    *)
(* then the sliding refresh of a session close to its expiry.              *)
VerifySessionOk(tok, t) ==
  /\ VerifyToken(tok, t)
  /\ GetValidByTokenHash(sessions, HashToken(tok), t) # {}
  /\ uexists /\ uactive

VerifySession(tok) ==
  /\ NoTaskInside /\ last.n < MaxRequests
  /\ Answer("verify_session", tok, VerifySessionOk(tok, now))
  /\ sessions' =
       IF VerifySessionOk(tok, now)
         THEN {IF x.token_hash = HashToken(tok) /\ NeedsRefresh(x, now)
                 THEN [x EXCEPT !.expires_at = now + SessionTtl] ELSE x : x \in sessions}
         ELSE sessions
  /\ UNCHANGED <<now, uexists, uactive, nsess, issued, revoked, lpc, ltok, sesOthers>>

(* get_current_user (GET /auth/me): verify_token and the active user. *)
GetCurrentUser(tok) ==
  /\ NoTaskInside /\ last.n < MaxRequests
  /\ Answer("get_current_user", tok, VerifyToken(tok, now) /\ uexists /\ uactive)
  /\ UNCHANGED <<now, uexists, uactive, sessions, nsess, issued, revoked, lpc, ltok,
                 sesOthers>>

(* cleanup_expired_sessions: DELETE ... WHERE expires_at <= now *)
CleanupExpired ==
  /\ NoTaskInside /\ \E x \in sessions : x.expires_at <= now
  /\ sessions' = {x \in sessions : x.expires_at > now}
  /\ UNCHANGED <<now, uexists, uactive, nsess, issued, revoked, last, lpc, ltok,
                 sesOthers>>

(* Time passes. *)
Tick ==
  /\ now < MaxTime
  /\ now' = now + 1
  /\ UNCHANGED <<uexists, uactive, sessions, nsess, issued, revoked, last, lpc, ltok,
                 sesOthers>>

(* ----------------------------------------------- routes/proxy.rs, decisions *)
(* A proxied request: what the handler was given (token: extract_token     *)
(* found one; verified: verify_session returned Ok; cur: the user's         *)
(* current_instance_id; assigned: is_user_assigned_to_instance), what it    *)
(* read of the instance (found, status, auto, and nchild, the children      *)
(* spawned so far), and what it did (starts: calls of start; start_res: the *)
(* result of that call; sent: calls of send; resp: the response).           *)
IdleReq ==
  [token |-> FALSE, verified |-> FALSE, cur |-> NoId, assigned |-> FALSE,
   found |-> FALSE, status |-> NULL, auto |-> FALSE, nchild |-> 0,
   starts |-> 0, start_res |-> NULL, sent |-> 0, resp |-> NULL]

ProxyCurrentValues == {NoId, 1}

(* Mutant: the assignment of the user to the instance is not checked. *)
ProxyGateSkipsAssignment(token, verified, cur, assigned, found) ==
  IF ~token THEN "401 UNAUTHORIZED"
  ELSE IF ~verified THEN "401 UNAUTHORIZED"
  ELSE IF cur = NoId THEN "400 NO_INSTANCE"
  ELSE IF ~found THEN "404 NO_INSTANCE"
  ELSE "pass"

(* proxy_handler steps 1 to 5: the early returns, in the order of the code. *)
ProxyGate(token, verified, cur, assigned, found) ==
  IF ~token THEN "401 UNAUTHORIZED"
  ELSE IF ~verified THEN "401 UNAUTHORIZED"
  ELSE IF cur = NoId THEN "400 NO_INSTANCE"
  ELSE IF ~assigned THEN "403 UNAUTHORIZED"
  ELSE IF ~found THEN "404 NO_INSTANCE"
  ELSE "pass"

(* Mutant: an instance that is not running is started whatever auto_start. *)
ShouldAutoStartAlways(status, auto) == status # "running"

(* step 6: if status != Running { if instance.auto_start { start } } *)
ShouldAutoStart(status, auto) == status # "running" /\ auto

(* if let Err(e) = start(..) { return 503 } *)
StartSucceeded(r) == r = "ok"

(* ------------------------------------------- routes/instances.rs, decisions *)
(* The last request to an admin-only route: the route, the role of the     *)
(* authenticated user, and the response ("403", or "served" when the       *)
(* handler went on to call the service).                                   *)
NoRequest == [route |-> NULL, role |-> NULL, resp |-> NULL]

Roles == {"admin", "user"}

(* User::is_admin *)
IsAdmin(role) == role = "admin"

(* Mutant: the handler does not look at the role. *)
RouteAllowsAnyone(role) == TRUE

(* if !auth_user.is_admin() { return Err(ApiError::Forbidden(..)) } *)
RouteAllows(role) == IsAdmin(role)

(* ------------------------------------------------ callers and environment *)
FirstLabel(o) ==
  CASE o = "start" -> "s_get"
    [] o = "stop" -> "p_get"
    [] o = "restart" -> "p_get"
    [] o = "health_check" -> "h_get"
    [] o = "recover" -> "r_list"

Idle(t) == pc[t] = "idle"

(* A request handler calls the supervisor (routes/instances.rs, proxy.rs,   *)
(* my_instances.rs).                                                        *)
Begin(t, o) ==
  /\ Idle(t)
  /\ op' = [op EXCEPT ![t] = o]
  /\ pc' = [pc EXCEPT ![t] = FirstLabel(o)]
  /\ recoverPending' = FALSE
  /\ UNCHANGED <<exists, row, auto_start, processes, lock, alive, nchild, restarts,
                 ch, held, elapsed, sigs, hres, res, supOthers>>

BeginStart(t) == Begin(t, "start")
BeginStop(t) == Begin(t, "stop")
BeginRestart(t) == Begin(t, "restart")
BeginHealthCheck(t) == Begin(t, "health_check")

(* recover_instances runs when the control plane boots, before it serves. *)
BeginRecover(t) ==
  /\ recoverPending
  /\ \A u \in Threads : Idle(u)
  /\ Begin(t, "recover")

Finish(t) ==
  /\ pc[t] = "done"
  /\ pc' = [pc EXCEPT ![t] = "idle"]
  /\ op' = [op EXCEPT ![t] = "none"]
  /\ ch' = [ch EXCEPT ![t] = NoChild]
  /\ held' = [held EXCEPT ![t] = NoChild]
  /\ elapsed' = [elapsed EXCEPT ![t] = 0]
  /\ sigs' = [sigs EXCEPT ![t] = <<>>]
  /\ hres' = [hres EXCEPT ![t] = NULL]
  /\ res' = [res EXCEPT ![t] = NULL]
  /\ UNCHANGED <<exists, row, auto_start, processes, lock, alive, nchild, restarts,
                 recoverPending, supOthers>>

(* A child process exits by itself (crash). *)
ChildExit(c) ==
  /\ c \in alive
  /\ alive' = alive \ {c}
  /\ UNCHANGED <<exists, row, auto_start, processes, lock, nchild, restarts,
                 recoverPending, op, pc, ch, held, elapsed, sigs, hres, res, supOthers>>

(* The control plane exits and boots again: its tasks and the process map   *)
(* (InstanceManager::new) are gone, the database and the children stay.     *)
ControlPlaneRestart ==
  /\ restarts < MaxRestarts
  /\ restarts' = restarts + 1
  /\ processes' = NoChild
  /\ lock' = NoThread
  /\ recoverPending' = TRUE
  /\ op' = [t \in Threads |-> "none"]
  /\ pc' = [t \in Threads |-> "idle"]
  /\ ch' = [t \in Threads |-> NoChild]
  /\ held' = [t \in Threads |-> NoChild]
  /\ elapsed' = [t \in Threads |-> 0]
  /\ sigs' = [t \in Threads |-> <<>>]
  /\ hres' = [t \in Threads |-> NULL]
  /\ res' = [t \in Threads |-> NULL]
  /\ UNCHANGED <<exists, row, auto_start, alive, nchild, supOthers>>

SupInit ==
  /\ exists \in BOOLEAN
  /\ auto_start \in BOOLEAN
  /\ row = NewRow
  /\ processes = NoChild
  /\ lock = NoThread
  /\ alive = {}
  /\ nchild = 0
  /\ restarts = 0
  /\ recoverPending = TRUE
  /\ op = [t \in Threads |-> "none"]
  /\ pc = [t \in Threads |-> "idle"]
  /\ ch = [t \in Threads |-> NoChild]
  /\ held = [t \in Threads |-> NoChild]
  /\ elapsed = [t \in Threads |-> 0]
  /\ sigs = [t \in Threads |-> <<>>]
  /\ hres = [t \in Threads |-> NULL]
  /\ res = [t \in Threads |-> NULL]
  /\ preq = [t \in Threads |-> IdleReq]
  /\ areq = NoRequest
  /\ agents = [ty \in AgentTypes |-> NoAgent]
  /\ logged = {}
  /\ response = {}
  /\ given = [ty \in AgentTypes |-> NULL]
  /\ child_env = {}
  /\ iagents = {}

(* The state after construction: Services::new on a migrated database with *)
(* no instance created yet (CrtInit), or with the instance the supervisor   *)
(* part follows (SupInit).                                                  *)
Init == SupInit /\ CrtInit /\ SesInit /\ EncInit

(* One step of task t inside start, stop, restart or health_check. *)
OpStep(t) ==
  \/ StartNotFound(t) \/ StartAlreadyRunning(t) \/ StartGet(t)
  \/ StartWriteStarting(t)
  \/ PrepareEnvironmentOk(t) \/ PrepareEnvironmentFails(t) \/ StartEnvError(t)
  \/ SpawnProcessOk(t) \/ SpawnProcessFails(t) \/ StartSpawnError(t)
  \/ StartInsert(t)
  \/ WaitProbeOk(t) \/ WaitProbeFails(t) \/ WaitTimeout(t)
  \/ StartWriteRunning(t) \/ StartWriteHealthy(t)
  \/ KillProcess(t) \/ StartHealthError(t)
  \/ StopNotFound(t) \/ StopAlreadyStopped(t) \/ StopGet(t)
  \/ StopWriteStopping(t)
  \/ StopProcessTake(t) \/ StopProcessNone(t)
  \/ StopWaitExited(t) \/ StopWaitTimeout(t)
  \/ StopWriteStopped(t) \/ StopWriteUnknown(t)
  \/ HealthNotFound(t) \/ HealthNotRunning(t) \/ HealthGet(t)
  \/ HealthProbeOk(t) \/ HealthProbeFails(t) \/ HealthWrite(t)
  \/ Finish(t)

(* One step of task t that only recover_instances takes. *)
RecoverStep(t) ==
  \/ RecoverListNone(t) \/ RecoverList(t)
  \/ RecoverStoppedAutoStart(t) \/ RecoverStoppedNoAutoStart(t)

BeginRequest(t) ==
  \/ BeginStart(t) \/ BeginStop(t) \/ BeginRestart(t) \/ BeginHealthCheck(t)

Environment ==
  \/ \E c \in ChildIds : ChildExit(c)
  \/ ControlPlaneRestart

(* Concurrent request handlers of one run of the control plane: any task   *)
(* may begin a request at any time.                                         *)
SupNext ==
  \/ \E t \in Threads : BeginRequest(t)
  \/ \E t \in Threads : OpStep(t)

SpecSup == Init /\ [][SupNext]_vars

(* One caller: an operation begins only when no other is in progress. *)
SerialBegin(t) ==
  /\ \A u \in Threads : Idle(u)
  /\ (BeginRequest(t) \/ BeginRecover(t))

SeqNext ==
  \/ SerialBegin(1)
  \/ OpStep(1)
  \/ RecoverStep(1)
  \/ Environment

SpecSeq == Init /\ [][SeqNext]_vars

(* ------------------------------------------------- routes/proxy.rs, steps *)
(* What a step of the proxy outside the supervisor leaves alone. *)
prxFrame == <<exists, row, auto_start, processes, lock, alive, nchild, restarts,
              ch, held, elapsed, sigs, hres, crtVars, tblVars, sesVars, encVars, agtVars,
              areq>>

(* The response is returned: the handler ends. *)
ProxyRespond(t, q, r) ==
  /\ preq' = [preq EXCEPT ![t] = [q EXCEPT !.resp = r]]
  /\ pc' = [pc EXCEPT ![t] = "x_done"]

(* What the handler reads of the instance (instance_manager.get). *)
ProxyRead(q) ==
  [q EXCEPT !.found = exists, !.status = row.status, !.auto = auto_start,
            !.nchild = nchild]

(* A request arrives at /{*path}: the token it carries, what verify_session *)
(* answers for it, and what the database holds for the user.               *)
ProxyBegin(t, token, verified, cur, assigned) ==
  /\ \A u \in Threads : Idle(u)
  /\ op' = [op EXCEPT ![t] = "proxy"]
  /\ pc' = [pc EXCEPT ![t] = "x_gate"]
  /\ recoverPending' = FALSE
  /\ preq' = [preq EXCEPT ![t] =
                [IdleReq EXCEPT !.token = token, !.verified = verified,
                                !.cur = cur, !.assigned = assigned]]
  /\ UNCHANGED <<res, prxFrame>>

(* steps 1 to 5 return early. *)
ProxyRefuse(t) ==
  /\ op[t] = "proxy" /\ pc[t] = "x_gate"
  /\ LET q == preq[t]
         g == ProxyGate(q.token, q.verified, q.cur, q.assigned, exists)
     IN  /\ g # "pass"
         /\ ProxyRespond(t, ProxyRead(q), g)
  /\ UNCHANGED <<op, res, recoverPending, prxFrame>>

(* step 6, the instance is running: go on to forward. *)
ProxyRunning(t) ==
  /\ op[t] = "proxy" /\ pc[t] = "x_gate"
  /\ LET q == preq[t]
     IN  /\ ProxyGate(q.token, q.verified, q.cur, q.assigned, exists) = "pass"
         /\ row.status = "running"
         /\ preq' = [preq EXCEPT ![t] = ProxyRead(q)]
         /\ pc' = [pc EXCEPT ![t] = "x_send"]
  /\ UNCHANGED <<op, res, recoverPending, prxFrame>>

(* step 6, not running and no auto_start: 503. *)
ProxyNotRunning(t) ==
  /\ op[t] = "proxy" /\ pc[t] = "x_gate"
  /\ LET q == preq[t]
     IN  /\ ProxyGate(q.token, q.verified, q.cur, q.assigned, exists) = "pass"
         /\ row.status # "running"
         /\ ~ShouldAutoStart(row.status, auto_start)
         /\ ProxyRespond(t, ProxyRead(q), "503 INSTANCE_NOT_RUNNING")
  /\ UNCHANGED <<op, res, recoverPending, prxFrame>>

(* step 6, not running and auto_start: instance_manager.start(id).await *)
ProxyAutoStart(t) ==
  /\ op[t] = "proxy" /\ pc[t] = "x_gate"
  /\ LET q == preq[t]
     IN  /\ ProxyGate(q.token, q.verified, q.cur, q.assigned, exists) = "pass"
         /\ ShouldAutoStart(row.status, auto_start)
         /\ preq' = [preq EXCEPT ![t] =
                       [ProxyRead(q) EXCEPT !.starts = q.starts + 1]]
         /\ pc' = [pc EXCEPT ![t] = FirstLabel("start")]
  /\ UNCHANGED <<op, res, recoverPending, prxFrame>>

(* start returned Err: 503. *)
ProxyStartFailed(t) ==
  /\ op[t] = "proxy" /\ pc[t] = "x_started"
  /\ ~StartSucceeded(res[t])
  /\ ProxyRespond(t, [preq[t] EXCEPT !.start_res = res[t]],
                  "503 INSTANCE_NOT_RUNNING")
  /\ UNCHANGED <<op, res, recoverPending, prxFrame>>

(* start returned Ok: go on to forward. *)
ProxyStartOk(t) ==
  /\ op[t] = "proxy" /\ pc[t] = "x_started"
  /\ StartSucceeded(res[t])
  /\ preq' = [preq EXCEPT ![t].start_res = res[t]]
  /\ pc' = [pc EXCEPT ![t] = "x_send"]
  /\ UNCHANGED <<op, res, recoverPending, prxFrame>>

(* step 8: reading the body of the request fails: 400, nothing is sent. *)
ProxyBodyError(t) ==
  /\ op[t] = "proxy" /\ pc[t] = "x_send"
  /\ ProxyRespond(t, preq[t], "400 PROXY_ERROR")
  /\ UNCHANGED <<op, res, recoverPending, prxFrame>>

(* step 9: request_builder.send().await, once: the answer of the child is   *)
(* passed on, an error of send or of reading the answer is a 502.           *)
ProxySend(t, answer) ==
  /\ op[t] = "proxy" /\ pc[t] = "x_send"
  /\ ProxyRespond(t, [preq[t] EXCEPT !.sent = preq[t].sent + 1], answer)
  /\ UNCHANGED <<op, res, recoverPending, prxFrame>>

ProxyAnswers == {"upstream", "502 PROXY_ERROR"}

(* The task of the request is over. *)
ProxyFinish(t) ==
  /\ op[t] = "proxy" /\ pc[t] = "x_done"
  /\ op' = [op EXCEPT ![t] = "none"]
  /\ pc' = [pc EXCEPT ![t] = "idle"]
  /\ res' = [res EXCEPT ![t] = NULL]
  /\ ch' = [ch EXCEPT ![t] = NoChild]
  /\ elapsed' = [elapsed EXCEPT ![t] = 0]
  /\ preq' = [preq EXCEPT ![t] = IdleReq]
  /\ UNCHANGED <<exists, row, auto_start, processes, lock, alive, nchild, restarts,
                 recoverPending, held, sigs, hres, crtVars, tblVars, sesVars, encVars,
                 agtVars, areq>>

ProxyStep(t) ==
  \/ ProxyRefuse(t) \/ ProxyRunning(t) \/ ProxyNotRunning(t) \/ ProxyAutoStart(t)
  \/ ProxyStartFailed(t) \/ ProxyStartOk(t)
  \/ ProxyBodyError(t)
  \/ \E answer \in ProxyAnswers : ProxySend(t, answer)
  \/ ProxyFinish(t)

(* One caller: requests to the proxy and to the instance routes, one at a   *)
(* time, over the instance the supervisor part follows.                     *)
PrxNext ==
  \/ SerialBegin(1)
  \/ \E token, verified, assigned \in BOOLEAN :
       \E cur \in ProxyCurrentValues : ProxyBegin(1, token, verified, cur, assigned)
  \/ OpStep(1)
  \/ RecoverStep(1)
  \/ ProxyStep(1)
  \/ Environment

SpecProxy == Init /\ [][PrxNext]_vars

(* ---------------------------------------------- routes/instances.rs, steps *)
SupervisorRoutes == {"start", "stop", "restart", "health_check"}

(* POST /instances/{id}/start, /stop, /restart and GET /instances/{id}/health *)
(* by an authenticated user: a non-admin is answered 403, for an admin the  *)
(* handler calls the supervisor.                                            *)
AdminRequest(t, route, role) ==
  /\ \A u \in Threads : Idle(u)
  /\ IF RouteAllows(role)
       THEN /\ areq' = [route |-> route, role |-> role, resp |-> "served"]
            /\ op' = [op EXCEPT ![t] = route]
            /\ pc' = [pc EXCEPT ![t] = FirstLabel(route)]
            /\ recoverPending' = FALSE
       ELSE /\ areq' = [route |-> route, role |-> role, resp |-> "403"]
            /\ UNCHANGED <<op, pc, recoverPending>>
  /\ UNCHANGED <<exists, row, auto_start, processes, lock, alive, nchild, restarts,
                 ch, held, elapsed, sigs, hres, res, crtVars, tblVars, sesVars, encVars,
                 agtVars, preq>>

(* Requests to the admin-only supervisor routes, one at a time. *)
AdmNext ==
  \/ \E route \in SupervisorRoutes, role \in Roles : AdminRequest(1, route, role)
  \/ BeginRecover(1)
  \/ OpStep(1)
  \/ RecoverStep(1)
  \/ Environment

SpecAdmin == Init /\ [][AdmNext]_vars

(* ------------------------------------------- agent_config_manager.rs, steps *)
(* PUT /instances/{id}/agents/{agent_type}: set_config on a missing         *)
(* instance is NotFound; else the key is encrypted, the row upserted, a log *)
(* record of agent_type and is_enabled written, and the row returned as     *)
(* AgentConfigInfo.                                                         *)
SetConfig(ty, is_enabled, api_key) ==
  /\ \A u \in Threads : Idle(u)
  /\ IF ~exists
       THEN /\ response' = {}
            /\ UNCHANGED <<agents, logged, given>>
       ELSE LET api_key_encrypted == IF api_key # NULL THEN Encrypt(api_key) ELSE NULL
                agent == Upsert(agents[ty], is_enabled, api_key_encrypted)
            IN  /\ agents' = [agents EXCEPT ![ty] = agent]
                /\ logged' = logged \cup {ty, BoolText(is_enabled)}
                /\ response' = {AgentConfigInfo(ty, agent)}
                /\ given' = IF api_key # NULL THEN [given EXCEPT ![ty] = api_key]
                                              ELSE given
  /\ UNCHANGED <<child_env, iagents, supVars, crtVars, tblVars, sesVars, encVars, prxVars>>

(* set_enabled: the UPDATE, then a log record of agent_type and is_enabled. *)
SetEnabled(ty, is_enabled) ==
  /\ \A u \in Threads : Idle(u)
  /\ agents' = [agents EXCEPT ![ty] = SetEnabledRow(agents[ty], is_enabled)]
  /\ logged' = logged \cup {ty, BoolText(is_enabled)}
  /\ UNCHANGED <<response, given, child_env, iagents, supVars, crtVars, tblVars,
                 sesVars, encVars, prxVars>>

(* GET /instances/{id}/agents: list_configs maps every row of the instance. *)
ListConfigs ==
  /\ \A u \in Threads : Idle(u)
  /\ response' = {AgentConfigInfo(ty, agents[ty]) :
                    ty \in {x \in AgentTypes : agents[x].present}}
  /\ UNCHANGED <<agents, logged, given, child_env, iagents, supVars, crtVars, tblVars,
                 sesVars, encVars, prxVars>>

(* One step of task t inside start or stop. *)
StartStopStep(t) ==
  \/ StartNotFound(t) \/ StartAlreadyRunning(t) \/ StartGet(t)
  \/ StartWriteStarting(t)
  \/ PrepareEnvironmentOk(t) \/ PrepareEnvironmentFails(t) \/ StartEnvError(t)
  \/ SpawnProcessOk(t) \/ SpawnProcessFails(t) \/ StartSpawnError(t)
  \/ StartInsert(t)
  \/ WaitProbeOk(t) \/ WaitProbeFails(t) \/ WaitTimeout(t)
  \/ StartWriteRunning(t) \/ StartWriteHealthy(t)
  \/ KillProcess(t) \/ StartHealthError(t)
  \/ StopNotFound(t) \/ StopAlreadyStopped(t) \/ StopGet(t)
  \/ StopWriteStopping(t)
  \/ StopProcessTake(t) \/ StopProcessNone(t)
  \/ StopWaitExited(t) \/ StopWaitTimeout(t)
  \/ StopWriteStopped(t) \/ StopWriteUnknown(t)
  \/ Finish(t)

(* One admin: agent configuration, start and stop, one at a time. *)
AgtNext ==
  \/ (\A u \in Threads : Idle(u)) /\ BeginStart(1)
  \/ (\A u \in Threads : Idle(u)) /\ BeginStop(1)
  \/ StartStopStep(1)
  \/ \E ty \in AgentTypes, is_enabled \in BOOLEAN, api_key \in Keys \cup {NULL} :
       SetConfig(ty, is_enabled, api_key)
  \/ \E ty \in AgentTypes, is_enabled \in BOOLEAN : SetEnabled(ty, is_enabled)
  \/ ListConfigs

(* auto_start plays no part in start, stop or the agent routes. *)
InitAgent == Init /\ ~auto_start

SpecAgent == InitAgent /\ [][AgtNext]_vars

(* ------------------------------------- InstanceManager::create / delete *)
CGoto(t, l) == cpc' = [cpc EXCEPT ![t] = l]

CReturn(t, r) ==
  /\ cpc' = [cpc EXCEPT ![t] = "done"]
  /\ cres' = [cres EXCEPT ![t] = r]

BeginCreate(t) ==
  /\ cpc[t] = "idle"
  /\ cop' = [cop EXCEPT ![t] = "create"]
  /\ CGoto(t, "c_alloc")
  /\ UNCHANGED <<rows, dirs, nextId, cid, cport, cres, crtOthers>>

(* next_available_port(...).await?.ok_or_else(|| Conflict(...))? *)
CreateNoPort(t) ==
  /\ cpc[t] = "c_alloc"
  /\ NextAvailablePort(rows, PortBase, PortMax) = NoPort
  /\ CReturn(t, "conflict")
  /\ UNCHANGED <<rows, dirs, nextId, cop, cid, cport, crtOthers>>

(* A port was found; Uuid::new_v4() gives the id. *)
CreateAllocate(t) ==
  /\ cpc[t] = "c_alloc"
  /\ NextAvailablePort(rows, PortBase, PortMax) # NoPort
  /\ nextId <= MaxInstances
  /\ cport' = [cport EXCEPT ![t] = NextAvailablePort(rows, PortBase, PortMax)]
  /\ cid' = [cid EXCEPT ![t] = nextId]
  /\ nextId' = nextId + 1
  /\ CGoto(t, "c_mkdir")
  /\ UNCHANGED <<rows, dirs, cop, cres, crtOthers>>

CreateDirectoriesOk(t) ==
  /\ cpc[t] = "c_mkdir"
  /\ dirs' = dirs \cup {cid[t]}
  /\ CGoto(t, "c_insert")
  /\ UNCHANGED <<rows, nextId, cop, cid, cport, cres, crtOthers>>

(* create_dir_all fails for one of the eight directories: the ones made     *)
(* before it stay.                                                          *)
CreateDirectoriesFail(t) ==
  /\ cpc[t] = "c_mkdir"
  /\ dirs' \in {dirs, dirs \cup {cid[t]}}
  /\ CReturn(t, "internal")
  /\ UNCHANGED <<rows, nextId, cop, cid, cport, crtOthers>>

(* VibeInstance::create: the INSERT. *)
CreateInsert(t) ==
  /\ cpc[t] = "c_insert"
  /\ PortConstraintHolds(rows, cport[t])
  /\ rows' = rows \cup {[id |-> cid[t], port |-> cport[t]]}
  /\ CGoto(t, "c_readback")
  /\ UNCHANGED <<dirs, nextId, cop, cid, cport, cres, crtOthers>>

(* The INSERT is refused by the uniqueness constraint on port. *)
CreateInsertConflict(t) ==
  /\ cpc[t] = "c_insert"
  /\ ~PortConstraintHolds(rows, cport[t])
  /\ CReturn(t, "database")
  /\ UNCHANGED <<rows, dirs, nextId, cop, cid, cport, crtOthers>>

(* The INSERT fails for another reason (sqlx::Error). *)
CreateInsertFails(t) ==
  /\ cpc[t] = "c_insert"
  /\ CReturn(t, "database")
  /\ UNCHANGED <<rows, dirs, nextId, cop, cid, cport, crtOthers>>

(* Self::get_by_id(pool, id).await?.ok_or(RowNotFound) *)
CreateReadBack(t) ==
  /\ cpc[t] = "c_readback"
  /\ \E r \in rows : r.id = cid[t]
  /\ CReturn(t, "ok")
  /\ UNCHANGED <<rows, dirs, nextId, cop, cid, cport, crtOthers>>

(* The read fails, or the row is gone (deleted by a concurrent delete). *)
CreateReadBackFails(t) ==
  /\ cpc[t] = "c_readback"
  /\ CReturn(t, "database")
  /\ UNCHANGED <<rows, dirs, nextId, cop, cid, cport, crtOthers>>

(* delete(id): every row of this table part has status stopped and no       *)
(* assignment, so the two Conflict checks pass.                            *)
BeginDelete(t, i) ==
  /\ cpc[t] = "idle"
  /\ i < nextId
  /\ cop' = [cop EXCEPT ![t] = "delete"]
  /\ cid' = [cid EXCEPT ![t] = i]
  /\ CGoto(t, "d_get")
  /\ UNCHANGED <<rows, dirs, nextId, cport, cres, crtOthers>>

DeleteNotFound(t) ==
  /\ cpc[t] = "d_get"
  /\ ~(\E r \in rows : r.id = cid[t])
  /\ CReturn(t, "not_found")
  /\ UNCHANGED <<rows, dirs, nextId, cop, cid, cport, crtOthers>>

DeleteRefused(t) ==
  /\ cpc[t] = "d_get"
  /\ \E r \in rows : r.id = cid[t]
  /\ DeleteCheck(istatus[cid[t]], CountUsers(assignments, cid[t])) # "ok"
  /\ CReturn(t, DeleteCheck(istatus[cid[t]], CountUsers(assignments, cid[t])))
  /\ UNCHANGED <<rows, dirs, nextId, cop, cid, cport, crtOthers>>

DeleteGet(t) ==
  /\ cpc[t] = "d_get"
  /\ \E r \in rows : r.id = cid[t]
  /\ DeleteCheck(istatus[cid[t]], CountUsers(assignments, cid[t])) = "ok"
  /\ CGoto(t, "d_rmdir")
  /\ UNCHANGED <<rows, dirs, nextId, cop, cid, cport, cres, crtOthers>>

(* if data_dir.exists() { remove_dir_all(&data_dir).await? } *)
DeleteRemoveDir(t) ==
  /\ cpc[t] = "d_rmdir"
  /\ dirs' = dirs \ {cid[t]}
  /\ CGoto(t, "d_delete")
  /\ UNCHANGED <<rows, nextId, cop, cid, cport, cres, crtOthers>>

DeleteRemoveDirFails(t) ==
  /\ cpc[t] = "d_rmdir"
  /\ cid[t] \in dirs
  /\ CReturn(t, "internal")
  /\ UNCHANGED <<rows, dirs, nextId, cop, cid, cport, crtOthers>>

(* VibeInstance::delete: DELETE FROM vibe_instances WHERE id = ? *)
DeleteRow(t) ==
  /\ cpc[t] = "d_delete"
  /\ rows' = {r \in rows : r.id # cid[t]}
  /\ CReturn(t, "ok")
  /\ UNCHANGED <<dirs, nextId, cop, cid, cport, crtOthers>>

DeleteRowFails(t) ==
  /\ cpc[t] = "d_delete"
  /\ CReturn(t, "database")
  /\ UNCHANGED <<rows, dirs, nextId, cop, cid, cport, crtOthers>>

CFinish(t) ==
  /\ cpc[t] = "done"
  /\ cpc' = [cpc EXCEPT ![t] = "idle"]
  /\ cop' = [cop EXCEPT ![t] = "none"]
  /\ cid' = [cid EXCEPT ![t] = NoId]
  /\ cport' = [cport EXCEPT ![t] = NoPort]
  /\ cres' = [cres EXCEPT ![t] = NULL]
  /\ UNCHANGED <<rows, dirs, nextId, crtOthers>>

(* One step of task t in create or delete, but for the INSERT that another   *)
(* create's row makes fail.                                                 *)
CrtStep(t) ==
  \/ BeginCreate(t)
  \/ CreateNoPort(t) \/ CreateAllocate(t)
  \/ CreateDirectoriesOk(t) \/ CreateDirectoriesFail(t)
  \/ CreateInsert(t) \/ CreateInsertFails(t)
  \/ CreateReadBack(t) \/ CreateReadBackFails(t)
  \/ \E i \in InstanceIds : BeginDelete(t, i)
  \/ DeleteNotFound(t) \/ DeleteGet(t)
  \/ DeleteRemoveDir(t) \/ DeleteRemoveDirFails(t)
  \/ DeleteRow(t) \/ DeleteRowFails(t)
  \/ CFinish(t)

(* Concurrent request handlers call create and delete. *)
CrtNext ==
  \/ \E t \in Threads : CrtStep(t)
  \/ \E t \in Threads : CreateInsertConflict(t)

(* One caller: the create and delete calls run one after the other. *)
CrtSeqNext == CrtStep(1)

(* create / delete on the table, the supervisor part at rest. *)
InitCreate == SupInit /\ CrtInit /\ SesInit /\ EncInit /\ ~exists /\ ~auto_start

SpecCreate == InitCreate /\ [][CrtNext]_vars

SpecCreateSeq == InitCreate /\ [][CrtSeqNext]_vars

(* Between two calls the supervisor leaves an instance in one of its       *)
(* statuses at rest (start and stop have returned), and users are assigned *)
(* to it or unassigned.                                                    *)
RestStatuses == {"stopped", "running", "error"}

InstanceStatusWritten(i, st) ==
  /\ \A t \in Threads : cpc[t] = "idle"
  /\ \E r \in rows : r.id = i
  /\ istatus[i] # st
  /\ istatus' = [istatus EXCEPT ![i] = st]
  /\ UNCHANGED <<assignments, alist, current, max_users, atask, tblOthers>>

AssignmentCreate(u, i) ==
  /\ \A t \in Threads : cpc[t] = "idle"
  /\ \E r \in rows : r.id = i
  /\ <<u, i>> \notin assignments
  /\ assignments' = assignments \cup {<<u, i>>}
  /\ alist' = Append(alist, <<u, i>>)
  /\ UNCHANGED <<istatus, current, max_users, atask, tblOthers>>

AssignmentDelete(u, i) ==
  /\ \A t \in Threads : cpc[t] = "idle"
  /\ <<u, i>> \in assignments
  /\ assignments' = assignments \ {<<u, i>>}
  /\ alist' = SelectSeq(alist, LAMBDA a : a # <<u, i>>)
  /\ UNCHANGED <<istatus, current, max_users, atask, tblOthers>>

(* set_config on an instance of the table: the instance must exist         *)
(* (VibeInstance::get_by_id), then the row of (instance, agent type) is    *)
(* upserted.                                                               *)
AgentUpsert(i, ty) ==
  /\ \A t \in Threads : cpc[t] = "idle"
  /\ \E r \in rows : r.id = i
  /\ <<i, ty>> \notin iagents
  /\ iagents' = iagents \cup {<<i, ty>>}
  /\ UNCHANGED <<agents, logged, response, given, child_env, supVars, crtVars,
                 tblVars, sesVars, encVars, prxVars>>

(* One caller of create and delete on instances whose agents are           *)
(* configured in between.                                                  *)
DagNext ==
  \/ CrtStep(1)
  \/ \E i \in InstanceIds, ty \in AgentTypes : AgentUpsert(i, ty)

SpecDeleteAgents == InitCreate /\ [][DagNext]_vars

(* One caller of create and delete on instances that are started, stopped, *)
(* assigned and unassigned in between.                                      *)
DelSeqNext ==
  \/ CrtStep(1)
  \/ DeleteRefused(1)
  \/ \E i \in InstanceIds, st \in RestStatuses : InstanceStatusWritten(i, st)
  \/ \E u \in UserIds, i \in InstanceIds : AssignmentCreate(u, i)
  \/ \E u \in UserIds, i \in InstanceIds : AssignmentDelete(u, i)

SpecDelete == InitCreate /\ [][DelSeqNext]_vars

(* ======================================================================= *)
(* UserManager: assign_user_to_instance / unassign_user_from_instance /    *)
(* switch_instance and the current instance that login sets, over          *)
(* user_instance_assignments and users.current_instance_id.  The admin     *)
(* check of assign and unassign has passed.                                *)
(* ======================================================================= *)
Reverse(q) == [k \in 1..Len(q) |-> q[Len(q) + 1 - k]]

(* Mutant: list_by_user in the order of the inserts. *)
ListByUserOldestFirst(al, u) == SelectSeq(al, LAMBDA a : a[1] = u)

(* list_by_user: ... WHERE user_id = ? ORDER BY assigned_at DESC *)
ListByUser(al, u) == Reverse(SelectSeq(al, LAMBDA a : a[1] = u))

(* get_user_instances: the instances of list_by_user whose row exists, in  *)
(* the same order.                                                         *)
GetUserInstances(al, rs, u) ==
  LET l == SelectSeq(ListByUser(al, u), LAMBDA a : \E r \in rs : r.id = a[2])
  IN  [k \in 1..Len(l) |-> l[k][2]]

IsAssigned(al, u, i) == \E k \in 1..Len(al) : al[k] = <<u, i>>

Pairs(al) == {al[k] : k \in 1..Len(al)}

(* Mutant: no uniqueness constraint on (user_id, instance_id). *)
AssignmentConstraintAbsent(al, u, i) == TRUE

(* The uniqueness constraint of user_instance_assignments on                *)
(* (user_id, instance_id).                                                  *)
AssignmentConstraintHolds(al, u, i) == ~IsAssigned(al, u, i)

(* assign_user_to_instance: if let Some(max_users) = instance.max_users,    *)
(* if max_users > 0, current_users >= max_users.                            *)
LimitReached(mu, current_users) ==
  mu # <<>> /\ mu[1] > 0 /\ current_users >= mu[1]

AGoto(t, l) == atask' = [atask EXCEPT ![t].pc = l]
AReturn(t, r) == atask' = [atask EXCEPT ![t].pc = "done", ![t].res = r]

(* A call begins; assign reads the user row first. *)
AsgBegin(t, o, u, i) ==
  /\ atask[t].pc = "idle"
  /\ atask' = [atask EXCEPT ![t] = [pc |-> "check", op |-> o, u |-> u, i |-> i,
                                    cur |-> current[u], res |-> NULL]]
  /\ UNCHANGED <<istatus, assignments, alist, current, max_users, tblOthers>>

(* assign: the instance row, the user limit, is_assigned. *)
AssignCheck(t) ==
  /\ atask[t].pc = "check" /\ atask[t].op = "assign"
  /\ LET u == atask[t].u
         i == atask[t].i
     IN  IF ~ \E r \in rows : r.id = i THEN AReturn(t, "not_found")
         ELSE IF LimitReached(max_users[i], CountUsers(assignments, i))
           THEN AReturn(t, "conflict")
         ELSE IF IsAssigned(alist, u, i) THEN AReturn(t, "ok")
         ELSE AGoto(t, "create")
  /\ UNCHANGED <<istatus, assignments, alist, current, max_users, tblOthers>>

(* UserInstanceAssignment::create *)
AssignCreate(t) ==
  /\ atask[t].pc = "create"
  /\ AssignmentConstraintHolds(alist, atask[t].u, atask[t].i)
  /\ alist' = Append(alist, <<atask[t].u, atask[t].i>>)
  /\ assignments' = Pairs(alist')
  /\ IF atask[t].cur = NoId THEN AGoto(t, "set_current") ELSE AReturn(t, "ok")
  /\ UNCHANGED <<istatus, current, max_users, tblOthers>>

(* The INSERT is refused by the uniqueness constraint. *)
AssignCreateConflict(t) ==
  /\ atask[t].pc = "create"
  /\ ~AssignmentConstraintHolds(alist, atask[t].u, atask[t].i)
  /\ AReturn(t, "database")
  /\ UNCHANGED <<istatus, assignments, alist, current, max_users, tblOthers>>

(* if user.current_instance_id.is_none() { update_current_instance(...) } *)
AssignSetCurrent(t) ==
  /\ atask[t].pc = "set_current"
  /\ current' = [current EXCEPT ![atask[t].u] = atask[t].i]
  /\ AReturn(t, "ok")
  /\ UNCHANGED <<istatus, assignments, alist, max_users, tblOthers>>

(* unassign: delete_by_user_and_instance *)
UnassignDelete(t) ==
  /\ atask[t].pc = "check" /\ atask[t].op = "unassign"
  /\ alist' = SelectSeq(alist, LAMBDA a : a # <<atask[t].u, atask[t].i>>)
  /\ assignments' = Pairs(alist')
  /\ AGoto(t, "read_user")
  /\ UNCHANGED <<istatus, current, max_users, tblOthers>>

(* Mutant: unassign leaves the current instance alone. *)
UnassignKeepsCurrent(t) ==
  /\ atask[t].pc = "read_user"
  /\ AReturn(t, "ok")
  /\ UNCHANGED <<istatus, assignments, alist, current, max_users, tblOthers>>

(* unassign: User::get_by_id, is the instance the user's current one? *)
UnassignReadUser(t) ==
  /\ atask[t].pc = "read_user"
  /\ IF current[atask[t].u] = atask[t].i THEN AGoto(t, "fallback")
                                         ELSE AReturn(t, "ok")
  /\ UNCHANGED <<istatus, assignments, alist, current, max_users, tblOthers>>

(* unassign: the first of get_user_instances becomes the current instance, *)
(* or none.                                                                *)
UnassignFallback(t) ==
  /\ atask[t].pc = "fallback"
  /\ LET others == GetUserInstances(alist, rows, atask[t].u)
     IN  current' = [current EXCEPT ![atask[t].u] =
                       IF others # <<>> THEN others[1] ELSE NoId]
  /\ AReturn(t, "ok")
  /\ UNCHANGED <<istatus, assignments, alist, max_users, tblOthers>>

(* switch_instance: is_assigned, the instance row. *)
SwitchCheck(t) ==
  /\ atask[t].pc = "check" /\ atask[t].op = "switch"
  /\ IF ~IsAssigned(alist, atask[t].u, atask[t].i) THEN AReturn(t, "forbidden")
     ELSE IF ~ \E r \in rows : r.id = atask[t].i THEN AReturn(t, "not_found")
     ELSE AGoto(t, "update")
  /\ UNCHANGED <<istatus, assignments, alist, current, max_users, tblOthers>>

SwitchUpdate(t) ==
  /\ atask[t].pc = "update"
  /\ current' = [current EXCEPT ![atask[t].u] = atask[t].i]
  /\ AReturn(t, "ok")
  /\ UNCHANGED <<istatus, assignments, alist, max_users, tblOthers>>

(* login of a user without a current instance: the first of                *)
(* get_user_instances becomes the current instance.                        *)
LoginSetsCurrent(u) ==
  /\ \A t \in Threads : atask[t].pc = "idle" /\ cpc[t] = "idle"
  /\ current[u] = NoId /\ GetUserInstances(alist, rows, u) # <<>>
  /\ current' = [current EXCEPT ![u] = GetUserInstances(alist, rows, u)[1]]
  /\ UNCHANGED <<istatus, assignments, alist, max_users, atask, tblOthers>>

AsgFinish(t) ==
  /\ atask[t].pc = "done"
  /\ atask' = [atask EXCEPT ![t] = IdleTask]
  /\ UNCHANGED <<istatus, assignments, alist, current, max_users, tblOthers>>

AsgOps == {"assign", "unassign", "switch"}

(* Values of the max_users column at creation: null, zero, a limit of one. *)
MaxUsersValues == {<<>>, <<0>>, <<1>>}

(* A control plane on which PortCount instances were created, all with the *)
(* same max_users, and no user is assigned yet.                            *)
InitAssign ==
  /\ SupInit /\ SesInit /\ EncInit /\ ~exists /\ ~auto_start
  /\ rows = {[id |-> i, port |-> PortBase + i - 1] : i \in 1..PortCount}
  /\ dirs = 1..PortCount
  /\ nextId = PortCount + 1
  /\ cop = [t \in Threads |-> "none"]
  /\ cpc = [t \in Threads |-> "idle"]
  /\ cid = [t \in Threads |-> NoId]
  /\ cport = [t \in Threads |-> NoPort]
  /\ cres = [t \in Threads |-> NULL]
  /\ istatus = [i \in InstanceIds |-> "stopped"]
  /\ assignments = {}
  /\ alist = <<>>
  /\ current = [u \in UserIds |-> NoId]
  /\ \E m \in MaxUsersValues : max_users = [i \in InstanceIds |-> m]
  /\ atask = [t \in Threads |-> IdleTask]

AsgStep(t) ==
  \/ \E o \in AsgOps, u \in UserIds, i \in InstanceIds : AsgBegin(t, o, u, i)
  \/ AssignCheck(t) \/ AssignCreate(t) \/ AssignSetCurrent(t)
  \/ UnassignDelete(t) \/ UnassignReadUser(t) \/ UnassignFallback(t)
  \/ SwitchCheck(t) \/ SwitchUpdate(t)
  \/ AsgFinish(t)

(* One caller: the calls and the instance creates and deletes run one      *)
(* after the other.                                                        *)
AsgSeqNext ==
  \/ (\A t \in Threads : cpc[t] = "idle") /\ AsgStep(1)
  \/ (\A t \in Threads : atask[t].pc = "idle") /\ CrtStep(1)

SpecAssign == InitAssign /\ [][AsgSeqNext]_vars

(* Concurrent request handlers call assign, unassign and switch; users log *)
(* in between.                                                             *)
AsgNext ==
  \/ \E t \in Threads : AsgStep(t)
  \/ \E t \in Threads : AssignCreateConflict(t)
  \/ \E u \in UserIds : LoginSetsCurrent(u)

SpecAssignRace == InitAssign /\ [][AsgNext]_vars

(* ------------------------------------------------- the session requests *)
LoginStep(t) ==
  \/ LoginRejected(t) \/ LoginGet(t) \/ LoginLimit(t)
  \/ LoginInsert(t) \/ LoginInsertConflict(t)

SetActiveStep(t) ==
  \/ \E b \in BOOLEAN : SetActiveWrite(t, b)
  \/ SetActivePurge(t)

(* One client: one request at a time, while time passes. *)
SesSeqNext ==
  \/ LoginStep(1)
  \/ SetActiveStep(1)
  \/ \E tok \in issued : Logout(tok)
  \/ UpdatePassword
  \/ \E tok \in issued : VerifySession(tok)
  \/ \E tok \in issued : GetCurrentUser(tok)
  \/ CleanupExpired
  \/ Tick

SpecSess == InitCreate /\ [][SesSeqNext]_vars

(* Logins and admin calls of several clients at once. *)
SesNext ==
  \/ \E t \in Threads : LoginStep(t)
  \/ \E t \in Threads : SetActiveStep(t)
  \/ Tick

SpecSessRace == InitCreate /\ [][SesNext]_vars

(* ======================================================================= *)
(* The claims.                                                             *)
(* ======================================================================= *)

(* C1: under concurrent start(id) calls at most one child process of the   *)
(* instance is alive at any time, and every live child has its handle in   *)
(* the process map (or is the child a start is about to insert, or the one *)
(* a stop_process took out and is terminating).                            *)
C1_OneLiveChildInMap ==
  /\ Cardinality(alive) <= 1
  /\ \A c \in alive :
       \/ processes = c
       \/ \E t \in Threads : pc[t] = "s_insert" /\ ch[t] = c
       \/ \E t \in Threads : pc[t] = "p_wait" /\ held[t] = c

(* A task is between the first and the last step of start, stop or restart. *)
Mid(t) ==
  /\ op[t] \in {"start", "stop", "restart"}
  /\ pc[t] \in {"s_env", "s_env_err", "s_spawn", "s_spawn_err", "s_insert",
                "s_wait", "s_running", "s_healthy", "s_kill", "s_err",
                "p_remove", "p_wait", "p_stopped", "p_health"}

(* C2: start, stop and restart on one instance are serialized: while one   *)
(* of them is between its first and its last step, no other task writes    *)
(* the status, spawns or kills a child, or changes the process map.        *)
C2_Serialized ==
  [][\A t \in Threads :
       (Mid(t) /\ pc'[t] = pc[t]) =>
         (row'.status = row.status /\ processes' = processes /\ alive' = alive)]_vars

StateMachineEdges ==
  {<<"stopped", "starting">>, <<"starting", "running">>, <<"starting", "error">>,
   <<"error", "starting">>, <<"running", "stopping">>, <<"error", "stopping">>,
   <<"stopping", "stopped">>}

(* C3: every change of the instance's status follows an edge of the state  *)
(* machine stopped->starting, starting->running, starting->error,          *)
(* error->starting, running->stopping, error->stopping, stopping->stopped. *)
C3_StatusFollowsEdges ==
  [][row'.status # row.status =>
       <<row.status, row'.status>> \in StateMachineEdges]_vars

(* C4: after any create and delete calls, every instance row has a port in *)
(* [port_base, port_max] and no two rows have the same port.               *)
C4_PortsUniqueInRange ==
  \A r \in rows :
    /\ r.port \in PortBase..PortMax
    /\ \A q \in rows : q.port = r.port => q = r

(* C4 witness: a create has succeeded with every port of the range in use, *)
(* after an earlier instance was deleted or an earlier create failed.      *)
C4_Witness ==
  \E t \in Threads :
    /\ cop[t] = "create" /\ cpc[t] = "done" /\ cres[t] = "ok"
    /\ Cardinality(rows) = PortCount
    /\ nextId > PortCount + 1

(* C5: port allocation and the row insert of a create are atomic with      *)
(* respect to other creates: the port a create allocated is still unused   *)
(* when it inserts its row, and no two rows hold the same port.            *)
C5_AllocationInsertAtomic ==
  /\ \A t \in Threads :
       cpc[t] \in {"c_mkdir", "c_insert"} => cport[t] \notin UsedPorts(rows)
  /\ \A r, q \in rows : q.port = r.port => q = r

FreePorts(rs) == (PortBase..PortMax) \ UsedPorts(rs)

(* C6: create allocates the smallest port of [port_base, port_max] that no *)
(* instance row uses and inserts the row with that port; when every port   *)
(* is used it returns Conflict and adds no row (and no directory).         *)
C6_SmallestFreePort ==
  [][\A t \in Threads :
       /\ (cpc[t] = "c_alloc" /\ cpc'[t] # "c_alloc") =>
            IF FreePorts(rows) = {}
              THEN /\ cpc'[t] = "done" /\ cres'[t] = "conflict"
                   /\ rows' = rows /\ dirs' = dirs
              ELSE /\ cport'[t] \in FreePorts(rows)
                   /\ \A q \in FreePorts(rows) : cport'[t] <= q
       /\ (cpc[t] = "c_insert" /\ cpc'[t] = "c_readback") =>
            rows' = rows \cup {[id |-> cid[t], port |-> cport[t]]}]_vars

(* C6 witness: a create has returned the instance with the smallest port,  *)
(* freed by a delete, while a larger port is in use.                       *)
C6_Witness ==
  \E t \in Threads :
    /\ cop[t] = "create" /\ cpc[t] = "done" /\ cres[t] = "ok"
    /\ cid[t] > 1
    /\ [id |-> cid[t], port |-> PortBase] \in rows
    /\ \E r \in rows : r.port > PortBase

(* C7: start on an existing instance that is not running has written       *)
(* status starting with last_error cleared when it spawns the child; when  *)
(* a probe answered 2xx within the startup timeout it returns Ok with      *)
(* status running, health_status healthy, last_error null and the child's  *)
(* handle in the process map.                                              *)
C7_StartSucceeds ==
  \A t \in Threads :
    /\ pc[t] \in {"s_env", "s_spawn", "s_insert"} =>
         (row.status = "starting" /\ row.last_error = NULL /\ row.last_error_at = NULL)
    /\ (pc[t] = "done" /\ op[t] \in {"start", "restart"} /\ res[t] = "ok"
          /\ ch[t] # NoChild) =>
         /\ row.status = "running"
         /\ row.health_status = "healthy"
         /\ row.last_error = NULL
         /\ processes = ch[t]
         /\ elapsed[t] < StartupTimeoutTicks

(* C7 witness: a start that found the instance in status error has spawned *)
(* a child and returned Ok.                                                *)
C7_Witness ==
  \E t \in Threads :
    /\ op[t] = "start" /\ pc[t] = "done" /\ res[t] = "ok" /\ ch[t] # NoChild
    /\ nchild > 1

(* C8: a start that returns an error after it wrote starting (no 2xx probe *)
(* within the startup timeout, environment assembly failed, or the spawn   *)
(* failed) leaves status error with a non-empty last_error, no handle in   *)
(* the process map and the child it spawned, if any, killed; the child is  *)
(* given up only when the startup timeout has passed.                      *)
C8_StartFails ==
  \A t \in Threads :
    /\ (pc[t] = "done" /\ op[t] \in {"start", "restart"} /\ res[t] = "err") =>
         /\ row.status = "error"
         /\ row.last_error \notin {NULL, ""}
         /\ row.last_error_at # NULL
         /\ processes = NoChild
         /\ ch[t] \notin alive
         /\ ch[t] # NoChild => elapsed[t] >= StartupTimeoutTicks
    /\ pc[t] = "s_err" => (processes = NoChild /\ ch[t] \notin alive)

(* C8 witness: a start has spawned a child, timed out and returned Err.    *)
C8_Witness ==
  \E t \in Threads :
    /\ op[t] = "start" /\ pc[t] = "done" /\ res[t] = "err" /\ ch[t] # NoChild

(* C9: start on an instance whose status is running returns success and    *)
(* changes nothing (no spawn, no write of the row, no change of the map);  *)
(* stop on an instance whose status is stopped returns success, signals no *)
(* process and writes nothing.                                             *)
C9_NoOpWhenAlreadyThere ==
  [][\A t \in Threads :
       /\ (pc[t] = "s_get" /\ pc'[t] # "s_get" /\ restarts' = restarts
             /\ exists /\ row.status = "running") =>
            /\ pc'[t] = "done" /\ res'[t] = "ok"
            /\ UNCHANGED <<row, processes, alive, nchild, sigs>>
       /\ (pc[t] = "p_get" /\ pc'[t] # "p_get" /\ restarts' = restarts
             /\ exists /\ row.status = "stopped") =>
            /\ IF op[t] = "restart" THEN pc'[t] = "s_get"
                                    ELSE pc'[t] = "done" /\ res'[t] = "ok"
            /\ UNCHANGED <<row, processes, alive, nchild, sigs>>]_vars

(* C9 witness: a start has returned Ok on a running instance without       *)
(* spawning.                                                               *)
C9_Witness ==
  \E t \in Threads :
    /\ op[t] = "start" /\ pc[t] = "done" /\ res[t] = "ok" /\ ch[t] = NoChild
    /\ row.status = "running" /\ processes # NoChild

(* C10: stop on a non-stopped instance has written status stopping when it *)
(* sends a signal, sends SIGTERM first and SIGKILL only when the child has *)
(* not exited within the shutdown timeout, takes the handle out of the     *)
(* process map, and returns with status stopped and health_status unknown. *)
C10_GracefulStop ==
  /\ [](\A t \in Threads :
          /\ sigs[t] \in {<<>>, <<"SIGTERM">>, <<"SIGTERM", "SIGKILL">>}
          /\ pc[t] = "p_wait" => (row.status = "stopping" /\ processes = NoChild))
  /\ [][\A t \in Threads :
          /\ sigs'[t] # sigs[t] /\ sigs[t] = <<>> => row.status = "stopping"
          /\ (Len(sigs'[t]) = 2 /\ Len(sigs[t]) = 1) =>
               (held[t] \in alive /\ held[t] \notin alive')
          /\ (pc[t] = "p_health" /\ pc'[t] \in {"done", "s_get"}) =>
               /\ row'.status = "stopped"
               /\ row'.health_status = "unknown"
               /\ processes' = NoChild]_vars

(* C10 witness: a stop of a running instance has escalated to SIGKILL and  *)
(* returned Ok.                                                            *)
C10_Witness ==
  \E t \in Threads :
    /\ op[t] = "stop" /\ pc[t] = "done" /\ res[t] = "ok"
    /\ sigs[t] = <<"SIGTERM", "SIGKILL">>
    /\ row.status = "stopped" /\ row.health_status = "unknown"

StopLabels == {"p_get", "p_stopping", "p_remove", "p_wait", "p_stopped", "p_health"}

(* C11: restart runs stop, then start: it begins with stop, start begins   *)
(* only when stop has completed (status stopped, no handle in the map);    *)
(* when stop fails restart returns its error and start is not attempted    *)
(* (nothing is spawned or written); when the start fails restart returns   *)
(* the error with status error, no handle in the process map and neither   *)
(* the child stop took out nor the child start spawned alive.              *)
C11_RestartStopThenStart ==
  /\ [](\A t \in Threads :
          (op[t] = "restart" /\ pc[t] = "done" /\ res[t] = "err") =>
            /\ row.status = "error"
            /\ row.last_error # NULL
            /\ processes = NoChild
            /\ ch[t] \notin alive
            /\ held[t] \notin alive)
  /\ [][\A t \in Threads :
          op'[t] = "restart" =>
            /\ (pc[t] = "idle" /\ pc'[t] # "idle") => pc'[t] = "p_get"
            /\ (pc[t] \in StopLabels /\ pc'[t] = "s_get") =>
                 (exists /\ row'.status = "stopped" /\ processes' = NoChild)
            /\ (pc[t] \in StopLabels /\ pc'[t] = "done") =>
                 /\ res'[t] = "not_found"
                 /\ UNCHANGED <<row, processes, alive, nchild>>
            /\ (pc[t] \in StopLabels /\ pc'[t] \notin StopLabels) =>
                 pc'[t] \in {"s_get", "done", "idle"}]_vars

(* C11 witness: a restart has stopped a running instance with SIGTERM,     *)
(* spawned a new child, and returned the error of the failed start.        *)
C11_Witness ==
  \E t \in Threads :
    /\ op[t] = "restart" /\ pc[t] = "done" /\ res[t] = "err"
    /\ sigs[t] # <<>> /\ ch[t] # NoChild
    /\ row.status = "error"

HealthLabels == {"h_get", "h_probe", "h_write"}

(* C12: recover_instances leaves an instance whose status is not running   *)
(* unmodified; for one whose status is running it probes the health: when  *)
(* healthy the status stays running and nothing is spawned; when unhealthy *)
(* it writes status stopped and then calls start exactly when auto_start   *)
(* is set; a start that fails does not fail the recovery.                  *)
C12_RecoverInstances ==
  [][\A t \in Threads :
       (op[t] = "recover" /\ op'[t] = "recover") =>
         /\ (pc[t] = "r_list" /\ pc'[t] # "r_list") =>
              IF exists /\ row.status = "running"
                THEN pc'[t] = "h_get" /\ UNCHANGED <<row, processes, alive, nchild>>
                ELSE /\ pc'[t] = "done" /\ res'[t] = "ok"
                     /\ UNCHANGED <<row, processes, alive, nchild>>
         /\ (pc[t] \in HealthLabels /\ pc'[t] # pc[t]) =>
              /\ row'.status = row.status
              /\ UNCHANGED <<processes, alive, nchild>>
         /\ (pc[t] = "h_write" /\ pc'[t] # pc[t]) =>
              IF hres[t] = "healthy"
                THEN pc'[t] = "done" /\ res'[t] = "ok" /\ row'.status = "running"
                ELSE pc'[t] = "r_stopped"
         /\ (pc[t] = "r_stopped" /\ pc'[t] # pc[t]) =>
              /\ row'.status = "stopped"
              /\ UNCHANGED <<processes, alive, nchild>>
              /\ IF auto_start THEN pc'[t] = "s_get"
                               ELSE pc'[t] = "done" /\ res'[t] = "ok"
         /\ pc'[t] = "done" => res'[t] = "ok"]_vars

(* C12 witness: after a control-plane restart the recovery found the       *)
(* instance running but unhealthy, set it to stopped, called start, and    *)
(* the start failed: the recovery has returned Ok with status error.       *)
C12_Witness ==
  \E t \in Threads :
    /\ op[t] = "recover" /\ pc[t] = "done" /\ res[t] = "ok"
    /\ restarts > 0 /\ hres[t] = "unhealthy"
    /\ row.status = "error"

(* C13: delete goes on to remove anything only when the instance's status  *)
(* is stopped and it has no assignment; with another status it returns the *)
(* Conflict that the instance must be stopped, with status stopped and an  *)
(* assignment the Conflict that it has assignments, and in both cases the  *)
(* rows, the assignments and the data directories are unchanged; a delete  *)
(* that returns Ok has removed the row of a stopped instance without       *)
(* assignments.                                                            *)
C13_DeleteGuarded ==
  [][\A t \in Threads :
       /\ (cop[t] = "delete" /\ cpc[t] = "d_get" /\ cpc'[t] # "d_get"
             /\ \E r \in rows : r.id = cid[t]) =>
            IF istatus[cid[t]] # "stopped"
              THEN /\ cpc'[t] = "done" /\ cres'[t] = "conflict_not_stopped"
                   /\ UNCHANGED <<rows, dirs, assignments, istatus>>
            ELSE IF \E u \in UserIds : <<u, cid[t]>> \in assignments
              THEN /\ cpc'[t] = "done" /\ cres'[t] = "conflict_has_users"
                   /\ UNCHANGED <<rows, dirs, assignments, istatus>>
            ELSE cpc'[t] = "d_rmdir"
       /\ (cop[t] = "delete" /\ cpc'[t] = "done" /\ cpc[t] # "done"
             /\ cres'[t] = "ok") =>
            /\ istatus[cid[t]] = "stopped"
            /\ ~ \E u \in UserIds : <<u, cid[t]>> \in assignments
            /\ rows' = {r \in rows : r.id # cid[t]}]_vars

(* C13 witness: a delete of a stopped instance with an assignment has been *)
(* refused, after a delete of the same instance while it was not stopped   *)
(* would have been refused too: the row and the directory are still there. *)
C13_Witness ==
  \E t \in Threads :
    /\ cop[t] = "delete" /\ cpc[t] = "done" /\ cres[t] = "conflict_has_users"
    /\ istatus[cid[t]] = "stopped"
    /\ \E r \in rows : r.id = cid[t]
    /\ cid[t] \in dirs

(* C14: whenever no create or delete call is in progress, the data         *)
(* directory of every instance row exists on disk, also after calls in     *)
(* which a filesystem step or a database step failed.                      *)
C14_DataDirExists ==
  (\A t \in Threads : cpc[t] \in {"idle", "done"}) =>
    \A r \in rows : r.id \in dirs

(* C15: a create that has returned an error has left no instance row for   *)
(* the id it generated, and the port it allocated is as unused as before.  *)
C15_CreateRolledBack ==
  \A t \in Threads :
    (cop[t] = "create" /\ cpc[t] = "done" /\ cres[t] # "ok") =>
      /\ ~ \E r \in rows : r.id = cid[t]
      /\ cport[t] \notin UsedPorts(rows)

(* A request has just been answered. *)
Answered(o) == last'.n # last.n /\ last'.op = o

(* C16: revocation is permanent: verify_session never succeeds for a token *)
(* whose logout has completed, nor for a token issued to the user before a *)
(* completed change_password or reset_password.                            *)
C16_RevocationPermanent ==
  [][(Answered("verify_session") /\ last'.ok) => last'.tok \notin revoked]_vars

(* C17: verify_session and get_current_user accept a token only if a       *)
(* session row with the token's hash and expires_at > now exists.          *)
C17_TokenNeedsLiveSession ==
  [][((Answered("verify_session") \/ Answered("get_current_user")) /\ last'.ok) =>
       GetValidByTokenHash(sessions, HashToken(last'.tok), now) # {}]_vars

(* C18: once set_user_active(u, false) has completed, u has no session row *)
(* for as long as u is inactive, whatever a concurrent login does.         *)
C18_NoSessionWhileInactive ==
  (~uactive /\ \A t \in Threads : lpc[t] # "a_purge") => sessions = {}

(* C19: after any logins, with no login in progress, the user has at most  *)
(* max_sessions_per_user session rows.                                     *)
C19_SessionCap ==
  NoTaskInside => Cardinality(sessions) <= MaxSessionsPerUser

(* C20: a verify_session that succeeds on a session within the refresh     *)
(* threshold of its expiry sets expires_at to now + session_ttl_secs, and  *)
(* a verify_session on a session extended that way succeeds while the      *)
(* extended expires_at has not passed, the user is active and the token is *)
(* not revoked.                                                            *)
C20_SlidingRefresh ==
  [][Answered("verify_session") =>
       LET tok == last'.tok
           live == GetValidByTokenHash(sessions, HashToken(tok), now)
       IN /\ (last'.ok /\ \E x \in live : NeedsRefresh(x, now)) =>
               \A y \in sessions' :
                 y.token_hash = HashToken(tok) => y.expires_at = now + SessionTtl
          /\ ((\E x \in live : x.expires_at > tok.exp)
                /\ uexists /\ uactive /\ tok \notin revoked) => last'.ok]_vars

(* C21: verify_session returns a user only if the token is one the server  *)
(* signed and its exp has not passed, a session row with the token's hash  *)
(* and expires_at > now exists, and the token's subject exists and is      *)
(* active.                                                                 *)
C21_VerifySessionConditions ==
  [][(Answered("verify_session") /\ last'.ok) =>
       /\ last'.tok \in issued /\ now <= last'.tok.exp
       /\ GetValidByTokenHash(sessions, HashToken(last'.tok), now) # {}
       /\ uexists /\ uactive]_vars

(* At rest: no assign, unassign, switch, create or delete is in progress. *)
AtRest == \A t \in Threads : atask[t].pc = "idle" /\ cpc[t] = "idle"

(* C22: after any sequence of completed login, assign, unassign, switch    *)
(* and instance delete calls, each user's current_instance_id is null or   *)
(* names an instance the user is assigned to; a user without a current     *)
(* instance has no assigned instance, so that login writes no other one.   *)
C22_CurrentIsAssigned ==
  AtRest =>
    \A u \in UserIds :
      /\ current[u] = NoId \/ <<u, current[u]>> \in assignments
      /\ current[u] = NoId => GetUserInstances(alist, rows, u) = <<>>
      /\ \A a \in assignments : \E r \in rows : r.id = a[2]

(* C22 witness: a user is left with a current instance after an unassign   *)
(* of its current instance and an instance delete.                         *)
C22_Witness ==
  /\ AtRest
  /\ Cardinality(rows) < PortCount
  /\ \E u \in UserIds :
       /\ current[u] # NoId /\ <<u, current[u]>> \in assignments
       /\ current[u] # alist[1][2]

(* C23: once a switch_instance(u, i) that was let through and a           *)
(* concurrent unassign(u, i) have both returned, u's current_instance_id   *)
(* is null or names an instance u is assigned to.                          *)
C23_SwitchUnassignRace ==
  \A t1, t2 \in Threads :
    (/\ atask[t1].pc = "done" /\ atask[t1].op = "switch" /\ atask[t1].res = "ok"
     /\ atask[t2].pc = "done" /\ atask[t2].op = "unassign"
     /\ atask[t1].u = atask[t2].u /\ atask[t1].i = atask[t2].i) =>
      LET u == atask[t1].u
      IN  current[u] = NoId \/ <<u, current[u]>> \in assignments

(* The rows of user u in the table, as positions of alist. *)
RowsOf(al, u) == {k \in 1..Len(al) : al[k][1] = u}

(* C24: unassign_user_from_instance(u, i) deletes the assignment row of    *)
(* the pair and no other; when u's current instance was i it sets it to    *)
(* the remaining assignment of u with the latest assigned_at, or to null   *)
(* when none remains; otherwise it leaves current_instance_id unchanged.   *)
C24_UnassignFallback ==
  [][\A t \in Threads :
       LET u == atask[t].u
           i == atask[t].i
       IN  /\ (atask[t].op = "unassign" /\ atask[t].pc = "check"
                 /\ atask'[t].pc # "check") =>
                /\ alist' = SelectSeq(alist, LAMBDA a : a # <<u, i>>)
                /\ current' = current
           /\ (atask[t].op = "unassign" /\ atask[t].pc # "done"
                 /\ atask'[t].pc = "done") =>
                /\ atask'[t].res = "ok"
                /\ alist' = alist /\ <<u, i>> \notin assignments
                /\ \A v \in UserIds \ {u} : current'[v] = current[v]
                /\ current'[u] =
                     IF current[u] # i THEN current[u]
                     ELSE IF RowsOf(alist, u) = {} THEN NoId
                     ELSE alist[CHOOSE k \in RowsOf(alist, u) :
                                  \A j \in RowsOf(alist, u) : j <= k][2]]_vars

(* C24 witness: an unassign of the user's current instance has returned    *)
(* with two assignments remaining, and the current instance is the later   *)
(* assigned of the two, which is not the smaller id.                       *)
C24_Witness ==
  \E t \in Threads :
    /\ atask[t].pc = "done" /\ atask[t].op = "unassign"
    /\ atask[t].cur = atask[t].i
    /\ Cardinality(RowsOf(alist, atask[t].u)) = 2
    /\ current[atask[t].u] = alist[Len(alist)][2]
    /\ alist[Len(alist)][2] > alist[1][2]

(* C25: assign_user_to_instance for a pair that is already assigned        *)
(* returns success and changes nothing, whatever the instance's max_users  *)
(* and user count.                                                         *)
C25_AssignIdempotent ==
  [][\A t \in Threads :
       (/\ atask[t].op = "assign" /\ atask[t].pc = "check"
        /\ atask'[t].pc # "check"
        /\ IsAssigned(alist, atask[t].u, atask[t].i)) =>
         /\ atask'[t].pc = "done" /\ atask'[t].res = "ok"
         /\ alist' = alist /\ current' = current]_vars

(* C26: under any interleaving of concurrent assign_user_to_instance calls *)
(* for the same pair, at most one assignment row of the pair exists.       *)
C26_OneRowPerPair ==
  \A u \in UserIds, i \in InstanceIds :
    Cardinality({k \in 1..Len(alist) : alist[k] = <<u, i>>}) <= 1

(* C26 witness: two concurrent assigns of the same pair both passed        *)
(* is_assigned; one inserted the row and the other was refused by the      *)
(* constraint.                                                             *)
C26_Witness ==
  \E t1, t2 \in Threads :
    /\ atask[t1].pc = "done" /\ atask[t1].op = "assign" /\ atask[t1].res = "ok"
    /\ atask[t2].pc = "done" /\ atask[t2].op = "assign"
    /\ atask[t2].res = "database"
    /\ atask[t1].u = atask[t2].u /\ atask[t1].i = atask[t2].i
    /\ IsAssigned(alist, atask[t1].u, atask[t1].i)

(* C27: for every instance whose max_users is set, whatever its value, the *)
(* number of assignments to it never exceeds max_users.                    *)
C27_MaxUsersRespected ==
  \A i \in InstanceIds :
    max_users[i] # <<>> => CountUsers(assignments, i) <= max_users[i][1]

(* What C28 requires of a forwarded request. *)
ProxyPassed(q) ==
  q.token /\ q.verified /\ q.cur # NoId /\ q.assigned /\ q.found

ProxyAllowed(q) ==
  /\ ProxyPassed(q)
  /\ (q.status = "running" \/ (q.starts > 0 /\ q.start_res = "ok"))

(* The response C28 names for a request that is not forwarded. *)
ProxyExpected(q) ==
  IF ~(q.token /\ q.verified) THEN "401 UNAUTHORIZED"
  ELSE IF q.cur = NoId THEN "400 NO_INSTANCE"
  ELSE IF ~q.assigned THEN "403 UNAUTHORIZED"
  ELSE IF ~q.found THEN "404 NO_INSTANCE"
  ELSE "503 INSTANCE_NOT_RUNNING"

C29_ProxyAutoStart ==
  \A t \in Threads :
    /\ preq[t].sent <= 1
    /\ (/\ op[t] = "proxy" /\ ProxyPassed(preq[t])
        /\ preq[t].status \notin {NULL, "running"}) =>
         IF preq[t].auto
           THEN /\ preq[t].starts = 1
                /\ preq[t].sent > 0 => preq[t].start_res = "ok"
                /\ (pc[t] = "x_done" /\ preq[t].start_res # "ok") =>
                     /\ preq[t].sent = 0
                     /\ preq[t].resp = "503 INSTANCE_NOT_RUNNING"
           ELSE /\ preq[t].starts = 0 /\ preq[t].sent = 0
                /\ row.status = preq[t].status /\ nchild = preq[t].nchild
                /\ pc[t] = "x_done" /\ preq[t].resp = "503 INSTANCE_NOT_RUNNING"

(* C29 witness: the start the proxy called failed and the request was      *)
(* answered 503 without being sent.                                        *)
C29_Witness ==
  \E t \in Threads :
    /\ op[t] = "proxy" /\ pc[t] = "x_done"
    /\ preq[t].auto /\ preq[t].status = "stopped"
    /\ preq[t].starts = 1 /\ preq[t].start_res = "err"
    /\ preq[t].sent = 0 /\ preq[t].resp = "503 INSTANCE_NOT_RUNNING"

(* C30: no API key of an agent, as submitted or as stored, is a field of   *)
(* an agent response or of a log record: the responses carry has_api_key   *)
(* only, and start logs no value of an API-key environment variable.       *)
C30_NoKeyMaterialExposed ==
  /\ logged \cap KeyMaterial = {}
  /\ \A r \in response :
       /\ DOMAIN r = {"agent_type", "is_enabled", "has_api_key"}
       /\ \A f \in DOMAIN r : r[f] \notin KeyMaterial

(* The variable that carries the API key of an agent type, if it has one. *)
ApiKeyVariable(ty) == IF ty = "claude-code" THEN "ANTHROPIC_API_KEY" ELSE NULL

(* C31: the environment of a spawned child holds, for every enabled agent  *)
(* with a stored API key, the key last given to set_config, in plaintext,  *)
(* under the variable of the agent; an agent that is not enabled           *)
(* contributes no variable.                                                *)
C31_ChildEnvHoldsPlaintextKey ==
  [][nchild' = nchild + 1 =>
       \A ty \in AgentTypes :
         IF agents[ty].present /\ agents[ty].is_enabled
           THEN (agents[ty].api_key_encrypted # NULL /\ ApiKeyVariable(ty) # NULL) =>
                  [key |-> ApiKeyVariable(ty), value |-> given[ty]] \in child_env'
           ELSE \A e \in child_env' :
                  e \notin GetAgentEnvVars(ty, agents[ty])]_vars

C33_DeleteRemovesAgents ==
  \A t \in Threads :
    (cop[t] = "delete" /\ cpc[t] = "done" /\ cres[t] = "ok") =>
      ~ \E a \in iagents : a[1] = cid[t]

(* C34: from any state of the agent table, after two calls of              *)
(* set_enabled(instance, agent_type, true) the row of (instance,           *)
(* agent_type) exists and its is_enabled is true, and the second call      *)
(* changes nothing.                                                        *)
C34_SetEnabledTwice ==
  \A ty \in AgentTypes :
    LET once == SetEnabledRow(agents[ty], TRUE)
        twice == SetEnabledRow(once, TRUE)
    IN  twice.present /\ twice.is_enabled /\ twice = once

(* Encryption and decryption of plaintexts under every pair of keys. *)
EncNext ==
  \/ \E key \in EncKeys \cup {NoKey}, other \in EncKeys \cup {NoKey} :
       EncryptionServiceNew(key, other)
  \/ \E plaintext \in Plaintexts, nonce \in Nonces : EncryptCall(plaintext, nonce)
  \/ DecryptCall

SpecCrypt == InitCreate /\ [][EncNext]_vars

LiveNext ==
  \/ (\A u \in Threads : Idle(u)) /\ BeginStart(1)
  \/ (\A u \in Threads : Idle(u)) /\ BeginStop(1)
  \/ StartStopStep(1)
  \/ \E c \in ChildIds : ChildExit(c)

SpecLive == Init /\ [][LiveNext]_vars /\ WF_vars(StartStopStep(1))

(* C37: every start of an existing instance returns with the status        *)
(* running or error, and every stop of an existing instance returns with   *)
(* the status stopped.                                                     *)
C37_StartStopTerminate ==
  \A t \in Threads :
    /\ (op[t] = "start" /\ pc[t] = "s_get" /\ exists)
         ~> (op[t] = "start" /\ pc[t] = "done"
             /\ row.status \in {"running", "error"})
    /\ (op[t] = "stop" /\ pc[t] = "p_get" /\ exists)
         ~> (op[t] = "stop" /\ pc[t] = "done" /\ row.status = "stopped")

(* C37 witness: a start whose child never answered in time has returned    *)
(* after the startup timeout, with the status error.                       *)
C37_Witness ==
  \E t \in Threads :
    /\ op[t] = "start" /\ pc[t] = "done" /\ res[t] = "err"
    /\ elapsed[t] = StartupTimeoutTicks
    /\ row.status = "error" /\ row.last_error = ErrHealth

(* C38: an instance whose status is error has a non-empty last_error and a *)
(* last_error_at; an instance whose status is starting or running has      *)
(* neither.                                                                *)
C38_ErrorFieldsFollowStatus ==
  exists =>
    /\ (row.status = "error") =>
         /\ row.last_error \notin {NULL, ""}
         /\ row.last_error_at # NULL
    /\ (row.status \in {"starting", "running"}) =>
         /\ row.last_error = NULL
         /\ row.last_error_at = NULL

(* C38 witness: one start has failed and returned its error, and another   *)
(* start has since written running: the error columns are null again.      *)
C38_Witness ==
  \E t \in Threads, u \in Threads :
    /\ t # u
    /\ op[u] = "start" /\ pc[u] = "done" /\ res[u] = "err"
    /\ op[t] = "start" /\ pc[t] = "s_healthy"
    /\ row.status = "running"
    /\ row.last_error = NULL /\ row.last_error_at = NULL

(* C39: when a start and a stop of the instance that ran concurrently have *)
(* both returned, the status is running exactly when the process map holds *)
(* a live child.                                                           *)
C39_StartStopAgree ==
  \A t \in Threads, u \in Threads :
    (/\ op[t] = "start" /\ pc[t] = "done"
     /\ op[u] = "stop" /\ pc[u] = "done"
     /\ exists)
    => (row.status = "running" <=> (processes # NoChild /\ processes \in alive))

(* C40: when stop has returned Ok, no child process of the instance is     *)
(* alive, also when the process map of this run of the control plane never *)
(* held the child.                                                         *)
C40_StopLeavesNoChild ==
  \A t \in Threads :
    (op[t] = "stop" /\ pc[t] = "done" /\ res[t] = "ok") => alive = {}

====
